---- MODULE Spec2Model ----
(***************************************************************************)
(* Diff-and-converge engine of cluster-api-provider-azure: the Parameters  *)
(* methods of the security group spec (NSGSpec) and of the scale set spec  *)
(* (ScaleSetSpec), which compare a desired spec with the observed remote   *)
(* object and return either nil (no write) or the payload to send; the     *)
(* Parameters of the virtual machine spec (VMSpec); and the reconciliation *)
(* driver that gets, diffs, submits and polls the remote operation.        *)
(***************************************************************************)
EXTENDS Integers, Sequences, FiniteSets, TLC

VARIABLES nsgPc, nsgSpec, nsgExisting, nsgResult, nsgErr, nsgCalls,
          vmssPc, vmssSpec, vmssExisting, vmssResult, vmssErr, vmssTerminal,
          vmPc, vmSpec, vmExisting, vmResult, vmErr, vmTerminal,
          drvPc, drvSpec, owned, remote, remoteOp, handle, handleState,
          drvObserved, drvPayload, drvFuture, passCalls, drvErr, drvOutcome,
          idPc, idIdentity, idUAMI, idVM, idVMMap, idVMSSMap,
          aiType, aiPc, aiCalls, aiErr, aiReturned, aiIdentities, aiBindings,
          naPc, naAllowed, naNamespace, naCluster, naResult, naCalls, naListErr

nsgVars == <<nsgPc, nsgSpec, nsgExisting, nsgResult, nsgErr, nsgCalls>>
vmssVars == <<vmssPc, vmssSpec, vmssExisting, vmssResult, vmssErr, vmssTerminal>>
vmVars == <<vmPc, vmSpec, vmExisting, vmResult, vmErr, vmTerminal>>
drvVars == <<drvPc, drvSpec, owned, remote, remoteOp, handle, handleState,
             drvObserved, drvPayload, drvFuture, passCalls, drvErr, drvOutcome>>
idVars == <<idPc, idIdentity, idUAMI, idVM, idVMMap, idVMSSMap>>
aiVars == <<aiType, aiPc, aiCalls, aiErr, aiReturned, aiIdentities, aiBindings>>
naVars == <<naPc, naAllowed, naNamespace, naCluster, naResult, naCalls, naListErr>>
vars == <<nsgVars, vmssVars, vmVars, drvVars, idVars, aiVars, naVars>>

(***************************************************************************)
(* Bounds of the model.                                                    *)
(***************************************************************************)
\* longest list of desired security rules in a spec
MaxDesired == 2
\* longest list of security rules of an observed security group
MaxObserved == 2

(***************************************************************************)
(* Strings.  A nil *string is NilStr; ptr.Deref(p, "") turns it into "".   *)
(***************************************************************************)
NilStr == "<nil>"

Deref(p) == IF p = NilStr THEN "" ELSE p

\* unicode case folding, on the strings of the model
Lower(s) == IF s = "SSH" THEN "ssh" ELSE s

EqualFold(a, b) == Lower(a) = Lower(b)

(***************************************************************************)
(* Desired rules (infrav1.SecurityRule) and their conversion to the SDK    *)
(* type (network.SecurityRule).                                            *)
(***************************************************************************)
InfraRule(name, proto, dir, src, srcPorts, dst, dstPorts) ==
    [Name |-> name, Protocol |-> proto, Direction |-> dir, Source |-> src,
     SourcePorts |-> srcPorts, Destination |-> dst, DestinationPorts |-> dstPorts]

SDKRule(name, proto, access, dir, src, srcPorts, dst, dstPorts) ==
    [Name |-> name, Protocol |-> proto, Access |-> access, Direction |-> dir,
     SourceAddressPrefix |-> src, SourcePortRange |-> srcPorts,
     DestinationAddressPrefix |-> dst, DestinationPortRange |-> dstPorts]

\* converters.SecurityRuleToSDK: the fields are copied, the access is Allow
SecurityRuleToSDK(rule) ==
    SDKRule(rule.Name, rule.Protocol, "Allow", rule.Direction, rule.Source,
            rule.SourcePorts, rule.Destination, rule.DestinationPorts)

\* the desired rules a spec is built from
DesiredRules ==
    { InfraRule("ssh", "Tcp", "Inbound", "*", "*", "*", "22"),
      InfraRule("http", "Tcp", "Inbound", "*", "*", "*", "80"),
      InfraRule("ssh", "Tcp", "Inbound", "*", "*", "*", "80"),
      InfraRule("SSH", "Tcp", "Inbound", "*", "*", "*", "22"),
      InfraRule("http", "Udp", "Outbound", "10.0.0.0/8", "1000", "10.1.0.0/16", "80") }

\* rules found in a security group that no desired rule converts to
ForeignRules ==
    { SDKRule("custom", "Tcp", "Allow", "Inbound", "*", "*", "*", "443"),
      SDKRule("ssh", "Udp", "Allow", "Inbound", "*", "*", "*", "22"),
      SDKRule("ssh", "Udp", "Deny", "Outbound", "10.0.0.0/8", NilStr, "*", "22") }

ObservedRules == { SecurityRuleToSDK(r) : r \in DesiredRules } \cup ForeignRules

\* the keys of LastAppliedSecurityRules
TrackedNames == {"ssh", "http", "custom"}

SeqsUpTo(S, n) == UNION { [1..k -> S] : k \in 0..n }

Range(s) == { s[i] : i \in 1..Len(s) }

\* the names of a rule list are pairwise different, case folded
UniqueNames(rules) ==
    \A i, j \in 1..Len(rules) : i # j => ~EqualFold(rules[i].Name, rules[j].Name)

(***************************************************************************)
(* NSGSpec.Parameters                                                      *)
(***************************************************************************)
RECURSIVE ruleExists(_, _)
ruleExists(rules, rule) ==
    IF rules = <<>> THEN FALSE
    ELSE LET existingRule == Head(rules) IN
         IF ~EqualFold(Deref(existingRule.Name), Deref(rule.Name))
            THEN ruleExists(Tail(rules), rule)
         ELSE IF ~EqualFold(Deref(existingRule.DestinationPortRange),
                            Deref(rule.DestinationPortRange))
            THEN ruleExists(Tail(rules), rule)
         ELSE IF /\ existingRule.Protocol # "Tcp"
                 /\ existingRule.Access # "Allow"
                 /\ existingRule.Direction # "Inbound"
            THEN ruleExists(Tail(rules), rule)
         ELSE IF /\ ~EqualFold(Deref(existingRule.SourcePortRange), "*")
                 /\ ~EqualFold(Deref(existingRule.SourceAddressPrefix), "*")
                 /\ ~EqualFold(Deref(existingRule.DestinationAddressPrefix), "*")
            THEN ruleExists(Tail(rules), rule)
         ELSE TRUE

\* as missingRules, but each rule is put in front of the ones before it
missingRulesReversed(desired, existingRules) ==
    LET found == { i \in 1..Len(desired) :
                     ~ruleExists(existingRules, SecurityRuleToSDK(desired[i])) }
        nth(k) == CHOOSE i \in found : Cardinality({ j \in found : j > i }) = k - 1
    IN  [k \in 1..Cardinality(found) |-> SecurityRuleToSDK(desired[nth(k)])]

\* first loop: the desired rules not found in the existing group, converted
RECURSIVE missingRules(_, _)
missingRules(desired, existingRules) ==
    IF desired = <<>> THEN <<>>
    ELSE LET sdkRule == SecurityRuleToSDK(Head(desired)) IN
         (IF ~ruleExists(existingRules, sdkRule) THEN <<sdkRule>> ELSE <<>>)
         \o missingRules(Tail(desired), existingRules)

\* the keys of newAnnotation after the first loop
newAnnotation(desired) == { desired[i].Name : i \in 1..Len(desired) }

\* as isDeleted, without the test that the rule was applied last
isDeletedUntracked(oldRule, annotation, lastApplied) ==
    oldRule.Name \notin annotation

\* as isDeleted, without the test that the rule is not found in the new rules
isDeletedTracked(oldRule, annotation, lastApplied) ==
    oldRule.Name \in lastApplied

\* the rule is owned and applied last, and not found in the new rules
isDeleted(oldRule, annotation, lastApplied) ==
    oldRule.Name \notin annotation /\ oldRule.Name \in lastApplied

\* as keptRules, but a deleted rule is added back too
keptRulesAll(existingRules, annotation, lastApplied) == existingRules

\* second loop: the previous rules that have not been deleted
RECURSIVE keptRules(_, _, _)
keptRules(existingRules, annotation, lastApplied) ==
    IF existingRules = <<>> THEN <<>>
    ELSE (IF isDeleted(Head(existingRules), annotation, lastApplied)
             THEN <<>> ELSE <<Head(existingRules)>>)
         \o keptRules(Tail(existingRules), annotation, lastApplied)

\* as needsUpdate, but a rule that is not in the spec sets the flag too
needsUpdateForeign(s, existingRules) ==
    \/ missingRules(s.SecurityRules, existingRules) # <<>>
    \/ \E i \in 1..Len(existingRules) :
          existingRules[i].Name \notin newAnnotation(s.SecurityRules)

\* the update flag after both loops
needsUpdate(s, existingRules) ==
    \/ missingRules(s.SecurityRules, existingRules) # <<>>
    \/ \E i \in 1..Len(existingRules) :
          isDeleted(existingRules[i], newAnnotation(s.SecurityRules),
                    s.LastAppliedSecurityRules)

\* as newGroupRules, but each rule is put in front of the ones before it
RECURSIVE newGroupRulesReversed(_)
newGroupRulesReversed(desired) ==
    IF desired = <<>> THEN <<>>
    ELSE newGroupRulesReversed(Tail(desired)) \o <<SecurityRuleToSDK(Head(desired))>>

\* new security group: the conversions of the rules of the spec
RECURSIVE newGroupRules(_)
newGroupRules(desired) ==
    IF desired = <<>> THEN <<>>
    ELSE <<SecurityRuleToSDK(Head(desired))>> \o newGroupRules(Tail(desired))

BuildTags(s) == [cluster |-> s.ClusterName, lifecycle |-> "owned", Name |-> s.Name]

NoGroup == [kind |-> "nil", Etag |-> NilStr, Location |-> NilStr,
            SecurityRules |-> <<>>, Tags |-> NilStr]

WrongType == [kind |-> "other", Etag |-> NilStr, Location |-> NilStr,
              SecurityRules |-> <<>>, Tags |-> NilStr]

\* as SecurityGroup, but the etag is left out
SecurityGroupNoEtag(s, etag, rules) ==
    [kind |-> "SecurityGroup", Etag |-> NilStr, Location |-> s.Location,
     SecurityRules |-> rules, Tags |-> BuildTags(s)]

\* the payload: location, rules, etag and the tags of an owned resource
SecurityGroup(s, etag, rules) ==
    [kind |-> "SecurityGroup", Etag |-> etag, Location |-> s.Location,
     SecurityRules |-> rules, Tags |-> BuildTags(s)]

\* the pair (payload, error) returned by Parameters
NSGParameters(s, existing) ==
    IF existing.kind # "nil"
    THEN IF existing.kind # "SecurityGroup"
         THEN [payload |-> NoGroup, err |-> "is not a network.SecurityGroup"]
         ELSE IF ~needsUpdate(s, existing.SecurityRules)
              THEN [payload |-> NoGroup, err |-> NilStr]
              ELSE [payload |-> SecurityGroup(s, existing.Etag,
                        missingRules(s.SecurityRules, existing.SecurityRules)
                        \o keptRules(existing.SecurityRules,
                                     newAnnotation(s.SecurityRules),
                                     s.LastAppliedSecurityRules)),
                    err |-> NilStr]
    ELSE [payload |-> SecurityGroup(s, NilStr, newGroupRules(s.SecurityRules)),
          err |-> NilStr]

(***************************************************************************)
(* The security group state machine: a spec and an observed group are      *)
(* chosen, Parameters is called, a payload is written to the remote group  *)
(* and Parameters is called again on what was written.                     *)
(***************************************************************************)
NSGSpecs ==
    { [Name |-> "test-nsg", Location |-> "test-location", ClusterName |-> "my-cluster",
       SecurityRules |-> rules, LastAppliedSecurityRules |-> applied] :
         rules \in SeqsUpTo(DesiredRules, MaxDesired), applied \in SUBSET TrackedNames }

ObservedGroups ==
    { [kind |-> "SecurityGroup", Etag |-> "fake-etag", Location |-> "test-location",
       SecurityRules |-> rules, Tags |-> NilStr] :
         rules \in { r \in SeqsUpTo(ObservedRules, MaxObserved) : UniqueNames(r) } }

NSGInit ==
    /\ nsgPc = "get"
    /\ nsgSpec \in NSGSpecs
    /\ nsgExisting \in ObservedGroups \cup {NoGroup, WrongType}
    /\ nsgResult = NoGroup
    /\ nsgErr = NilStr
    /\ nsgCalls = 0
    /\ vmssPc = "idle"
    /\ vmssSpec = NilStr
    /\ vmssExisting = NilStr
    /\ vmssResult = NilStr
    /\ vmssErr = NilStr
    /\ vmssTerminal = FALSE
    /\ vmPc = "idle"
    /\ vmSpec = NilStr
    /\ vmExisting = NilStr
    /\ vmResult = NilStr
    /\ vmErr = NilStr
    /\ vmTerminal = FALSE
    /\ drvPc = "off"
    /\ drvSpec = NilStr
    /\ owned = {}
    /\ remote = NilStr
    /\ remoteOp = NilStr
    /\ handle = NilStr
    /\ handleState = NilStr
    /\ drvObserved = NilStr
    /\ drvPayload = NilStr
    /\ drvFuture = NilStr
    /\ passCalls = <<>>
    /\ drvErr = NilStr
    /\ drvOutcome = NilStr
    /\ idPc = "idle"
    /\ idIdentity = NilStr
    /\ idUAMI = NilStr
    /\ idVM = NilStr
    /\ idVMMap = NilStr
    /\ idVMSSMap = NilStr
    /\ aiType = NilStr
    /\ aiPc = NilStr
    /\ aiCalls = NilStr
    /\ aiErr = NilStr
    /\ aiReturned = NilStr
    /\ aiIdentities = 0
    /\ aiBindings = 0
    /\ naPc = "idle"
    /\ naAllowed = NilStr
    /\ naNamespace = NilStr
    /\ naCluster = {}
    /\ naResult = FALSE
    /\ naCalls = <<>>
    /\ naListErr = NilStr

\* s.Parameters(ctx, existing)
NSGCallParameters ==
    /\ nsgPc = "get"
    /\ LET r == NSGParameters(nsgSpec, nsgExisting) IN
         /\ nsgResult' = r.payload
         /\ nsgErr' = r.err
    /\ nsgCalls' = nsgCalls + 1
    /\ nsgPc' = "diffed"
    /\ UNCHANGED <<nsgSpec, nsgExisting>>

\* the payload is written: the remote group holds exactly its rules
NSGApply ==
    /\ nsgPc = "diffed"
    /\ nsgCalls = 1
    /\ nsgErr = NilStr
    /\ nsgResult.kind = "SecurityGroup"
    /\ nsgExisting' = [kind |-> "SecurityGroup", Etag |-> "fake-etag-2",
                       Location |-> nsgResult.Location,
                       SecurityRules |-> nsgResult.SecurityRules, Tags |-> nsgResult.Tags]
    /\ nsgPc' = "get"
    /\ UNCHANGED <<nsgSpec, nsgResult, nsgErr, nsgCalls>>

NSGNext ==
    \/ NSGCallParameters /\ UNCHANGED <<vmssVars, vmVars, drvVars, idVars, aiVars, naVars>>
    \/ NSGApply /\ UNCHANGED <<vmssVars, vmVars, drvVars, idVars, aiVars, naVars>>

SpecNSG == NSGInit /\ [][NSGNext]_vars

(***************************************************************************)
(* ScaleSetSpec.Parameters                                                 *)
(***************************************************************************)
\* largest Capacity of a scale set spec
MaxCapacity == 2
\* largest MaxSurge of a scale set spec
MaxSurgeValue == 2
\* largest capacity of an observed scale set
MaxExistingCapacity == 3
\* longest list of scale set instances
MaxInstances == 2

NoVMSS == [kind |-> "nil", ID |-> NilStr, Sku |-> [Name |-> NilStr, Capacity |-> 0],
           OrchestrationMode |-> NilStr, NetworkProfile |-> NilStr,
           StorageProfile |-> NilStr, SecurityProfile |-> NilStr,
           AdditionalCapabilities |-> [present |-> FALSE, UltraSSDEnabled |-> NilStr]]

\* the zero value compute.VirtualMachineScaleSet{}
ZeroVMSS == [NoVMSS EXCEPT !.kind = "VMSS"]

NotAVMSS == [NoVMSS EXCEPT !.kind = "other"]

\* s.SKU.HasCapability(capability)
HasCapability(sku, capability) == capability \in sku

\* An error is its message (err, NilStr for the nil error) and whether it is
\* a terminal reconcile error.

\* azure.WithTerminalError(err): a reconcile error that is not requeued
WithTerminalError(msg) ==
    [err |-> "reconcile error that cannot be recovered occurred: " \o msg
                \o ". Object will not be requeued",
     terminal |-> TRUE]

\* the storage profile (its DiffDiskSettings) and the error of
\* generateStorageProfile
generateStorageProfile(s) ==
    IF s.OSDisk.DiffDiskSettings # NilStr /\ ~HasCapability(s.SKU, "EphemeralOSDiskSupported")
    THEN [profile |-> NilStr,
          err |-> "vm size " \o s.Size \o " does not support ephemeral os. select a different vm size or disable ephemeral os",
          terminal |-> FALSE]
    ELSE [profile |-> s.OSDisk.DiffDiskSettings, err |-> NilStr, terminal |-> FALSE]

\* the security profile and the error of getSecurityProfile
getSecurityProfile(s) ==
    IF s.SecurityProfile = NilStr
    THEN [profile |-> NilStr, err |-> NilStr, terminal |-> FALSE]
    ELSE IF ~HasCapability(s.SKU, "EncryptionAtHostSupported")
         THEN LET e == WithTerminalError(
                          "encryption at host is not supported for VM type " \o s.Size)
              IN  [profile |-> NilStr, err |-> e.err, terminal |-> e.terminal]
         ELSE [profile |-> s.SecurityProfile, err |-> NilStr, terminal |-> FALSE]

\* s.AcceleratedNetworking after the first statement of Parameters
setAcceleratedNetworking(s) ==
    IF s.AcceleratedNetworking = NilStr
    THEN [s EXCEPT !.AcceleratedNetworking =
              IF HasCapability(s.SKU, "AcceleratedNetworkingEnabled")
                 THEN "true" ELSE "false"]
    ELSE s

\* A pointer to compute.AdditionalCapabilities: nil when present is FALSE.
NoCapabilities == [present |-> FALSE, UltraSSDEnabled |-> NilStr]

\* the panic of a write through a nil pointer
NilDereference == "panic: runtime error: invalid memory address or nil pointer dereference"

\* some data disk uses UltraSSD_LRS
usesUltraSSD(dataDisks) ==
    \E i \in 1..Len(dataDisks) :
        /\ dataDisks[i].ManagedDisk # NilStr
        /\ dataDisks[i].ManagedDisk = "UltraSSD_LRS"

\* vmss.AdditionalCapabilities after the loop over the data disks
detectedCapabilities(s) ==
    IF usesUltraSSD(s.DataDisks)
    THEN [present |-> TRUE, UltraSSDEnabled |-> "true"]
    ELSE NoCapabilities

\* the spec sets a value for UltraSSDEnabled
setsUltraSSD(s) ==
    s.AdditionalCapabilities.present /\ s.AdditionalCapabilities.UltraSSDEnabled # NilStr

\* Parameters when nothing is observed: the payload, the error and the spec
\* as the call leaves it
newParameters(s) ==
    LET s1 == setAcceleratedNetworking(s)
        storageProfile == generateStorageProfile(s1)
        securityProfile == getSecurityProfile(s1)
        detected == detectedCapabilities(s1)
    IN  IF storageProfile.err # NilStr
        THEN [payload |-> ZeroVMSS, err |-> storageProfile.err,
              terminal |-> storageProfile.terminal, spec |-> s1]
        ELSE IF securityProfile.err # NilStr
        THEN [payload |-> ZeroVMSS, err |-> securityProfile.err,
              terminal |-> securityProfile.terminal, spec |-> s1]
        ELSE IF setsUltraSSD(s1) /\ ~detected.present
        THEN [payload |-> NoVMSS, err |-> NilDereference, terminal |-> FALSE, spec |-> s1]
        ELSE [payload |-> [kind |-> "VMSS", ID |-> NilStr,
                           Sku |-> [Name |-> s1.Size, Capacity |-> s1.Capacity],
                           OrchestrationMode |-> s1.OrchestrationMode,
                           NetworkProfile |-> s1.AcceleratedNetworking,
                           StorageProfile |-> storageProfile.profile,
                           SecurityProfile |-> securityProfile.profile,
                           AdditionalCapabilities |->
                              IF setsUltraSSD(s1)
                              THEN [detected EXCEPT !.UltraSSDEnabled =
                                       s1.AdditionalCapabilities.UltraSSDEnabled]
                              ELSE detected],
              err |-> NilStr, terminal |-> FALSE, spec |-> s1]

\* converters.SDKToVMSS: the fields of the scale set that the model keeps
SDKToVMSS(sdkVMSS, instances) ==
    [ID |-> sdkVMSS.ID, Sku |-> sdkVMSS.Sku.Name, Capacity |-> sdkVMSS.Sku.Capacity,
     Instances |-> instances]

\* VMSS.HasModelChanges
HasModelChanges(vmss, other) == vmss.Sku # other.Sku

hasModelModifyingDifferences(infraVMSS, vmss) ==
    HasModelChanges(infraVMSS, SDKToVMSS(vmss, <<>>))

\* VMSS.HasEnoughLatestModelOrNotMixedModel
HasEnoughLatestModelOrNotMixedModel(vmss) ==
    \A i \in 1..Len(vmss.Instances) : vmss.Instances[i].LatestModelApplied

\* as shouldSurge, without the test that MaxSurge is positive
shouldSurgeUnguarded(s, hasModelChanges, updated) ==
    (hasModelChanges \/ ~updated) /\ ~s.HasReplicasExternallyManaged

\* as shouldSurge, without the test of HasReplicasExternallyManaged
shouldSurgeExternal(s, hasModelChanges, updated) ==
    s.MaxSurge > 0 /\ (hasModelChanges \/ ~updated)

\* as shouldSurge, but both a model change and a fleet that is not updated
\* are needed
shouldSurgeBoth(s, hasModelChanges, updated) ==
    s.MaxSurge > 0 /\ (hasModelChanges /\ ~updated) /\ ~s.HasReplicasExternallyManaged

\* the condition under which the capacity is surged
shouldSurge(s, hasModelChanges, updated) ==
    s.MaxSurge > 0 /\ (hasModelChanges \/ ~updated) /\ ~s.HasReplicasExternallyManaged

\* as upToDate, but the replica count is not looked at
upToDateAnyCapacity(s, capacity, existingCapacity, hasModelChanges) ==
    ~hasModelChanges /\ ~s.ShouldPatchCustomData

\* as upToDate, but an equal replica count is taken for an increase
upToDateStrict(s, capacity, existingCapacity, hasModelChanges) ==
    capacity < existingCapacity /\ ~hasModelChanges /\ ~s.ShouldPatchCustomData

\* there are no model changes and no increase in the replica count
upToDate(s, capacity, existingCapacity, hasModelChanges) ==
    capacity <= existingCapacity /\ ~hasModelChanges /\ ~s.ShouldPatchCustomData

\* as surgeCapacity, but the surge is added to the capacity that is observed
surgeCapacityCompounding(s, existingInfraVMSS) == existingInfraVMSS.Capacity + s.MaxSurge

\* surge := s.Capacity + int64(s.MaxSurge)
surgeCapacity(s, existingInfraVMSS) == s.Capacity + s.MaxSurge

existingParameters(s, existing) ==
    IF existing.kind # "VMSS"
    THEN [payload |-> NoVMSS, err |-> "is not a compute.VirtualMachineScaleSet",
          terminal |-> FALSE, spec |-> s]
    ELSE
    LET existingInfraVMSS == SDKToVMSS(existing, s.VMSSInstances)
        params == newParameters(s)
    IN  IF params.err = NilDereference
        THEN params
        ELSE IF params.err # NilStr
        THEN [payload |-> NoVMSS,
              err |-> "failed to generate scale set update parameters for "
                         \o s.Name \o ": " \o params.err,
              terminal |-> params.terminal,
              spec |-> params.spec]
        ELSE
        LET s1 == params.spec
            vmss == [params.payload EXCEPT !.NetworkProfile = NilStr, !.ID = existing.ID]
            hasModelChanges == hasModelModifyingDifferences(existingInfraVMSS, vmss)
            isFlex == s1.OrchestrationMode = "Flexible"
            updated == IF ~isFlex
                          THEN HasEnoughLatestModelOrNotMixedModel(existingInfraVMSS)
                          ELSE TRUE
            surged == IF shouldSurge(s1, hasModelChanges, updated)
                         THEN [vmss EXCEPT !.Sku.Capacity =
                                            surgeCapacity(s1, existingInfraVMSS)]
                         ELSE vmss
        IN  IF upToDate(s1, surged.Sku.Capacity, existingInfraVMSS.Capacity, hasModelChanges)
            THEN [payload |-> NoVMSS, err |-> NilStr, terminal |-> FALSE, spec |-> s1]
            ELSE [payload |-> surged, err |-> NilStr, terminal |-> FALSE, spec |-> s1]

\* ScaleSetSpec.Parameters
ScaleSetParameters(s, existing) ==
    IF existing.kind # "nil" THEN existingParameters(s, existing) ELSE newParameters(s)

ScaleSetSpecs ==
    { [Name |-> "my-vmss", Size |-> "VM_SIZE", Capacity |-> capacity, MaxSurge |-> maxSurge,
       OrchestrationMode |-> mode, HasReplicasExternallyManaged |-> external,
       ShouldPatchCustomData |-> patch, AcceleratedNetworking |-> accel,
       OSDisk |-> [DiffDiskSettings |-> diff], DataDisks |-> <<>>,
       AdditionalCapabilities |-> NoCapabilities,
       SecurityProfile |-> security, SKU |-> sku, VMSSInstances |-> instances] :
         capacity \in 0..MaxCapacity, maxSurge \in -1..MaxSurgeValue,
         mode \in {"Uniform", "Flexible"}, external \in BOOLEAN, patch \in BOOLEAN,
         accel \in {NilStr, "false"}, diff \in {NilStr, "Local"},
         security \in {NilStr, "EncryptionAtHost"},
         sku \in { {"AcceleratedNetworkingEnabled"},
                   {"AcceleratedNetworkingEnabled", "EncryptionAtHostSupported"},
                   {"AcceleratedNetworkingEnabled", "EncryptionAtHostSupported",
                    "EphemeralOSDiskSupported"} },
         instances \in SeqsUpTo({[LatestModelApplied |-> TRUE],
                                 [LatestModelApplied |-> FALSE]}, MaxInstances) }

ExistingScaleSets ==
    { [NoVMSS EXCEPT !.kind = "VMSS", !.ID = "vmss-id",
                     !.Sku = [Name |-> size, Capacity |-> capacity]] :
         size \in {"VM_SIZE", "VM_SIZE_OLD"}, capacity \in 0..MaxExistingCapacity }

VMSSInit ==
    /\ vmssPc = "get"
    /\ vmssSpec \in ScaleSetSpecs
    /\ vmssExisting \in ExistingScaleSets \cup {NoVMSS, NotAVMSS}
    /\ vmssResult = NoVMSS
    /\ vmssErr = NilStr
    /\ vmssTerminal = FALSE
    /\ nsgPc = "idle"
    /\ nsgSpec = NilStr
    /\ nsgExisting = NilStr
    /\ nsgResult = NilStr
    /\ nsgErr = NilStr
    /\ nsgCalls = 0
    /\ vmPc = "idle"
    /\ vmSpec = NilStr
    /\ vmExisting = NilStr
    /\ vmResult = NilStr
    /\ vmErr = NilStr
    /\ vmTerminal = FALSE
    /\ drvPc = "off"
    /\ drvSpec = NilStr
    /\ owned = {}
    /\ remote = NilStr
    /\ remoteOp = NilStr
    /\ handle = NilStr
    /\ handleState = NilStr
    /\ drvObserved = NilStr
    /\ drvPayload = NilStr
    /\ drvFuture = NilStr
    /\ passCalls = <<>>
    /\ drvErr = NilStr
    /\ drvOutcome = NilStr
    /\ idPc = "idle"
    /\ idIdentity = NilStr
    /\ idUAMI = NilStr
    /\ idVM = NilStr
    /\ idVMMap = NilStr
    /\ idVMSSMap = NilStr
    /\ aiType = NilStr
    /\ aiPc = NilStr
    /\ aiCalls = NilStr
    /\ aiErr = NilStr
    /\ aiReturned = NilStr
    /\ aiIdentities = 0
    /\ aiBindings = 0
    /\ naPc = "idle"
    /\ naAllowed = NilStr
    /\ naNamespace = NilStr
    /\ naCluster = {}
    /\ naResult = FALSE
    /\ naCalls = <<>>
    /\ naListErr = NilStr

\* s.Parameters(ctx, existing)
VMSSCallParameters ==
    /\ vmssPc = "get"
    /\ LET r == ScaleSetParameters(vmssSpec, vmssExisting) IN
         /\ vmssResult' = r.payload
         /\ vmssErr' = r.err
         /\ vmssTerminal' = r.terminal
         /\ vmssSpec' = r.spec
    /\ vmssPc' = "diffed"
    /\ UNCHANGED vmssExisting

VMSSNext == VMSSCallParameters /\ UNCHANGED <<nsgVars, vmVars, drvVars, idVars, aiVars, naVars>>

SpecVMSS == VMSSInit /\ [][VMSSNext]_vars

(***************************************************************************)
(* Repeated passes over a scale set: every payload that Parameters returns *)
(* is written to the remote scale set, and Parameters is called again with *)
(* the same spec.                                                          *)
(***************************************************************************)
VMSSPassInit ==
    /\ vmssPc = "get"
    /\ vmssSpec \in { s \in ScaleSetSpecs :
                          /\ s.AcceleratedNetworking = "false"
                          /\ s.OSDisk.DiffDiskSettings = NilStr
                          /\ s.SecurityProfile = NilStr
                          /\ s.SKU = {"AcceleratedNetworkingEnabled"} }
    /\ vmssExisting \in ExistingScaleSets \cup {NoVMSS}
    /\ vmssResult = NoVMSS
    /\ vmssErr = NilStr
    /\ vmssTerminal = FALSE
    /\ nsgPc = "idle"
    /\ nsgSpec = NilStr
    /\ nsgExisting = NilStr
    /\ nsgResult = NilStr
    /\ nsgErr = NilStr
    /\ nsgCalls = 0
    /\ vmPc = "idle"
    /\ vmSpec = NilStr
    /\ vmExisting = NilStr
    /\ vmResult = NilStr
    /\ vmErr = NilStr
    /\ vmTerminal = FALSE
    /\ drvPc = "off"
    /\ drvSpec = NilStr
    /\ owned = {}
    /\ remote = NilStr
    /\ remoteOp = NilStr
    /\ handle = NilStr
    /\ handleState = NilStr
    /\ drvObserved = NilStr
    /\ drvPayload = NilStr
    /\ drvFuture = NilStr
    /\ passCalls = <<>>
    /\ drvErr = NilStr
    /\ drvOutcome = NilStr
    /\ idPc = "idle"
    /\ idIdentity = NilStr
    /\ idUAMI = NilStr
    /\ idVM = NilStr
    /\ idVMMap = NilStr
    /\ idVMSSMap = NilStr
    /\ aiType = NilStr
    /\ aiPc = NilStr
    /\ aiCalls = NilStr
    /\ aiErr = NilStr
    /\ aiReturned = NilStr
    /\ aiIdentities = 0
    /\ aiBindings = 0
    /\ naPc = "idle"
    /\ naAllowed = NilStr
    /\ naNamespace = NilStr
    /\ naCluster = {}
    /\ naResult = FALSE
    /\ naCalls = <<>>
    /\ naListErr = NilStr

\* the payload is written: the remote scale set has its Sku
VMSSApply ==
    /\ vmssPc = "diffed"
    /\ vmssErr = NilStr
    /\ vmssResult.kind = "VMSS"
    /\ vmssExisting' = [vmssResult EXCEPT !.ID = "vmss-id"]
    /\ vmssPc' = "get"
    /\ UNCHANGED <<vmssSpec, vmssResult, vmssErr, vmssTerminal>>

VMSSPassNext ==
    \/ VMSSCallParameters /\ UNCHANGED <<nsgVars, vmVars, drvVars, idVars, aiVars, naVars>>
    \/ VMSSApply /\ UNCHANGED <<nsgVars, vmVars, drvVars, idVars, aiVars, naVars>>

SpecVMSSPasses == VMSSPassInit /\ [][VMSSPassNext]_vars

\* the data disks of a spec: none, one without a managed disk, one Premium
\* disk, one UltraSSD disk
DataDiskSets ==
    { <<>>, <<[ManagedDisk |-> NilStr]>>, <<[ManagedDisk |-> "Premium_LRS"]>>,
      <<[ManagedDisk |-> "UltraSSD_LRS"]>> }

\* the AdditionalCapabilities of a spec: nil, UltraSSDEnabled nil, true, false
CapabilitySets ==
    { NoCapabilities } \cup
    { [present |-> TRUE, UltraSSDEnabled |-> u] : u \in {NilStr, "true", "false"} }

\* scale set specs with data disks and additional capabilities
VMSSUltraInit ==
    /\ vmssPc = "get"
    /\ vmssSpec \in { [s EXCEPT !.DataDisks = d, !.AdditionalCapabilities = c] :
                          s \in { t \in ScaleSetSpecs :
                                     /\ t.AcceleratedNetworking = "false"
                                     /\ t.OSDisk.DiffDiskSettings = NilStr
                                     /\ t.SKU = {"AcceleratedNetworkingEnabled"}
                                     /\ t.VMSSInstances = <<>> },
                          d \in DataDiskSets, c \in CapabilitySets }
    /\ vmssExisting \in ExistingScaleSets \cup {NoVMSS}
    /\ vmssResult = NoVMSS
    /\ vmssErr = NilStr
    /\ vmssTerminal = FALSE
    /\ nsgPc = "idle"
    /\ nsgSpec = NilStr
    /\ nsgExisting = NilStr
    /\ nsgResult = NilStr
    /\ nsgErr = NilStr
    /\ nsgCalls = 0
    /\ vmPc = "idle"
    /\ vmSpec = NilStr
    /\ vmExisting = NilStr
    /\ vmResult = NilStr
    /\ vmErr = NilStr
    /\ vmTerminal = FALSE
    /\ drvPc = "off"
    /\ drvSpec = NilStr
    /\ owned = {}
    /\ remote = NilStr
    /\ remoteOp = NilStr
    /\ handle = NilStr
    /\ handleState = NilStr
    /\ drvObserved = NilStr
    /\ drvPayload = NilStr
    /\ drvFuture = NilStr
    /\ passCalls = <<>>
    /\ drvErr = NilStr
    /\ drvOutcome = NilStr
    /\ idPc = "idle"
    /\ idIdentity = NilStr
    /\ idUAMI = NilStr
    /\ idVM = NilStr
    /\ idVMMap = NilStr
    /\ idVMSSMap = NilStr
    /\ aiType = NilStr
    /\ aiPc = NilStr
    /\ aiCalls = NilStr
    /\ aiErr = NilStr
    /\ aiReturned = NilStr
    /\ aiIdentities = 0
    /\ aiBindings = 0
    /\ naPc = "idle"
    /\ naAllowed = NilStr
    /\ naNamespace = NilStr
    /\ naCluster = {}
    /\ naResult = FALSE
    /\ naCalls = <<>>
    /\ naListErr = NilStr

SpecVMSSUltra == VMSSUltraInit /\ [][VMSSNext]_vars

(***************************************************************************)
(* VMSpec.Parameters, as the cases of its TestParameters describe it       *)
(***************************************************************************)
NoVM == [kind |-> "nil", Name |-> NilStr, VMSize |-> NilStr,
         StorageProfile |-> NilStr, SecurityProfile |-> NilStr]

NotAVM == [NoVM EXCEPT !.kind = "other"]

\* azure.VMDeletedError{ProviderID: providerID}.Error()
VMDeletedError(providerID) ==
    "VM with provider id " \o providerID \o " has been deleted"

\* as isVirtualMachine, but no observed object is taken for a virtual machine
isVirtualMachineNever(existing) == FALSE

\* existing.(compute.VirtualMachine)
isVirtualMachine(existing) == existing.kind = "VirtualMachine"

\* as deletedOutOfBand, but the provider ID is not looked at
deletedOutOfBandNever(s) == FALSE

\* the provider ID is set but the VM does not exist
deletedOutOfBand(s) == s.ProviderID # ""

\* the storage profile of a VM: ephemeral OS needs the capability of the SKU
vmStorageProfile(s) ==
    IF s.OSDisk.DiffDiskSettings # NilStr /\ ~HasCapability(s.SKU, "EphemeralOSDiskSupported")
    THEN LET e == WithTerminalError("VM size " \o s.Size
                     \o " does not support ephemeral os. Select a different VM size or disable ephemeral os")
         IN  [profile |-> NilStr, err |-> e.err, terminal |-> e.terminal]
    ELSE [profile |-> s.OSDisk.DiffDiskSettings, err |-> NilStr, terminal |-> FALSE]

\* the security profile of a VM: encryption at host needs the capability
vmSecurityProfile(s) ==
    IF s.SecurityProfile # NilStr /\ ~HasCapability(s.SKU, "EncryptionAtHostSupported")
    THEN LET e == WithTerminalError(
                     "encryption at host is not supported for VM type " \o s.Size)
         IN  [profile |-> NilStr, err |-> e.err, terminal |-> e.terminal]
    ELSE [profile |-> s.SecurityProfile, err |-> NilStr, terminal |-> FALSE]

\* VMSpec.Parameters: the payload, the error and whether it is terminal
VMParameters(s, existing) ==
    IF existing.kind # "nil"
    THEN IF ~isVirtualMachine(existing)
         THEN [payload |-> NoVM, err |-> "is not a compute.VirtualMachine",
               terminal |-> FALSE]
         ELSE [payload |-> NoVM, err |-> NilStr, terminal |-> FALSE]
    ELSE IF deletedOutOfBand(s)
    THEN [payload |-> NoVM, err |-> VMDeletedError(s.ProviderID), terminal |-> FALSE]
    ELSE LET storageProfile == vmStorageProfile(s)
             securityProfile == vmSecurityProfile(s)
         IN  IF storageProfile.err # NilStr
             THEN [payload |-> NoVM, err |-> storageProfile.err,
                   terminal |-> storageProfile.terminal]
             ELSE IF securityProfile.err # NilStr
             THEN [payload |-> NoVM, err |-> securityProfile.err,
                   terminal |-> securityProfile.terminal]
             ELSE [payload |-> [kind |-> "VirtualMachine", Name |-> s.Name,
                                VMSize |-> s.Size,
                                StorageProfile |-> storageProfile.profile,
                                SecurityProfile |-> securityProfile.profile],
                   err |-> NilStr, terminal |-> FALSE]

VMSpecs ==
    { [Name |-> "my-vm", Size |-> "Standard_D2v3", ProviderID |-> providerID,
       OSDisk |-> [DiffDiskSettings |-> diff], SecurityProfile |-> security,
       SKU |-> sku] :
         providerID \in {"", "fake/vm/id", "azure:///vm-0"},
         diff \in {NilStr, "Local"}, security \in {NilStr, "EncryptionAtHost"},
         sku \in SUBSET {"EncryptionAtHostSupported", "EphemeralOSDiskSupported"} }

ExistingVMs ==
    { [NoVM EXCEPT !.kind = "VirtualMachine", !.Name = "my-vm", !.VMSize = size] :
         size \in {NilStr, "Standard_D2v3", "Standard_D4v3"} }

VMInit ==
    /\ vmPc = "get"
    /\ vmSpec \in VMSpecs
    /\ vmExisting \in ExistingVMs \cup {NoVM, NotAVM}
    /\ vmResult = NoVM
    /\ vmErr = NilStr
    /\ vmTerminal = FALSE
    /\ nsgPc = "idle"
    /\ nsgSpec = NilStr
    /\ nsgExisting = NilStr
    /\ nsgResult = NilStr
    /\ nsgErr = NilStr
    /\ nsgCalls = 0
    /\ vmssPc = "idle"
    /\ vmssSpec = NilStr
    /\ vmssExisting = NilStr
    /\ vmssResult = NilStr
    /\ vmssErr = NilStr
    /\ vmssTerminal = FALSE
    /\ drvPc = "off"
    /\ drvSpec = NilStr
    /\ owned = {}
    /\ remote = NilStr
    /\ remoteOp = NilStr
    /\ handle = NilStr
    /\ handleState = NilStr
    /\ drvObserved = NilStr
    /\ drvPayload = NilStr
    /\ drvFuture = NilStr
    /\ passCalls = <<>>
    /\ drvErr = NilStr
    /\ drvOutcome = NilStr
    /\ idPc = "idle"
    /\ idIdentity = NilStr
    /\ idUAMI = NilStr
    /\ idVM = NilStr
    /\ idVMMap = NilStr
    /\ idVMSSMap = NilStr
    /\ aiType = NilStr
    /\ aiPc = NilStr
    /\ aiCalls = NilStr
    /\ aiErr = NilStr
    /\ aiReturned = NilStr
    /\ aiIdentities = 0
    /\ aiBindings = 0
    /\ naPc = "idle"
    /\ naAllowed = NilStr
    /\ naNamespace = NilStr
    /\ naCluster = {}
    /\ naResult = FALSE
    /\ naCalls = <<>>
    /\ naListErr = NilStr

\* s.Parameters(ctx, existing)
VMCallParameters ==
    /\ vmPc = "get"
    /\ LET r == VMParameters(vmSpec, vmExisting) IN
         /\ vmResult' = r.payload
         /\ vmErr' = r.err
         /\ vmTerminal' = r.terminal
    /\ vmPc' = "diffed"
    /\ UNCHANGED <<vmSpec, vmExisting>>

VMNext == VMCallParameters /\ UNCHANGED <<nsgVars, vmssVars, drvVars, idVars, aiVars, naVars>>

SpecVM == VMInit /\ [][VMNext]_vars

(***************************************************************************)
(* The reconciliation driver and the async operation poller: a pass either *)
(* polls the persisted handle or gets the remote object, diffs and submits.*)
(* Persisted: owned (the Ownership Record), handle and handleState.  In    *)
(* memory, lost by a crash: drvPc, drvObserved, drvPayload, drvFuture,     *)
(* passCalls.  Remote: remote (the object) and remoteOp (the operation).   *)
(***************************************************************************)
\* the names of the sub-entities
RuleNames == {"ssh", "http", "custom"}

NoObject == [exists |-> FALSE, rules |-> {}]

NoPayload == [nil |-> TRUE, rules |-> {}]

NoOperation == [state |-> "none", rules |-> {}]

\* Ownership Tracker, Reconcile: the names to retract
Reconcile(desiredNames, observedNames, priorOwned) == priorOwned \ desiredNames

\* Diff Engine on the names of the sub-entities
DriverParameters(desiredNames, obs, priorOwned) ==
    IF ~obs.exists
    THEN [nil |-> FALSE, rules |-> desiredNames]
    ELSE LET merged == (obs.rules \ Reconcile(desiredNames, obs.rules, priorOwned))
                          \cup desiredNames
         IN  IF merged = obs.rules THEN NoPayload
             ELSE [nil |-> FALSE, rules |-> merged]

\* as startPass, but a pass never looks at the persisted handle
startPassAlwaysGet(h) == "get"

\* the first step of a pass: poll the persisted handle if there is one
startPass(h) == IF h # NilStr THEN "poll" ELSE "get"

\* as commitOwnership, but the record is replaced before the write is confirmed
commitOwnershipSpeculative(record, desiredNames, confirmed) == desiredNames

\* the Ownership Record after a step: replaced by the desired names only
\* when the remote write is confirmed
commitOwnership(record, desiredNames, confirmed) ==
    IF confirmed THEN desiredNames ELSE record

\* as pollError, but an operation that is not done is an error of the pass
pollErrorNotDone(done, err) == IF ~done /\ err = NilStr THEN "operation not done" ELSE err

\* the error of a pass that polled: the error of IsDone
pollError(done, err) == err

DriverInit ==
    /\ drvPc = "idle"
    /\ drvSpec \in { [ResourceName |-> "test-nsg", Names |-> names] :
                        names \in SUBSET RuleNames }
    /\ owned \in SUBSET RuleNames
    /\ remote \in {NoObject} \cup { [exists |-> TRUE, rules |-> rules] :
                                       rules \in SUBSET RuleNames }
    /\ remoteOp = NoOperation
    /\ handle = NilStr
    /\ handleState = "none"
    /\ drvObserved = NoObject
    /\ drvPayload = NoPayload
    /\ drvFuture = NilStr
    /\ passCalls = <<>>
    /\ drvErr = NilStr
    /\ drvOutcome = "none"
    /\ nsgPc = "idle"
    /\ nsgSpec = NilStr
    /\ nsgExisting = NilStr
    /\ nsgResult = NilStr
    /\ nsgErr = NilStr
    /\ nsgCalls = 0
    /\ vmssPc = "idle"
    /\ vmssSpec = NilStr
    /\ vmssExisting = NilStr
    /\ vmssResult = NilStr
    /\ vmssErr = NilStr
    /\ vmssTerminal = FALSE
    /\ vmPc = "idle"
    /\ vmSpec = NilStr
    /\ vmExisting = NilStr
    /\ vmResult = NilStr
    /\ vmErr = NilStr
    /\ vmTerminal = FALSE
    /\ idPc = "idle"
    /\ idIdentity = NilStr
    /\ idUAMI = NilStr
    /\ idVM = NilStr
    /\ idVMMap = NilStr
    /\ idVMSSMap = NilStr
    /\ aiType = NilStr
    /\ aiPc = NilStr
    /\ aiCalls = NilStr
    /\ aiErr = NilStr
    /\ aiReturned = NilStr
    /\ aiIdentities = 0
    /\ aiBindings = 0
    /\ naPc = "idle"
    /\ naAllowed = NilStr
    /\ naNamespace = NilStr
    /\ naCluster = {}
    /\ naResult = FALSE
    /\ naCalls = <<>>
    /\ naListErr = NilStr

\* a pass starts: it polls the persisted handle, or gets the remote object
StartPass ==
    /\ drvPc = "idle"
    /\ drvPc' = startPass(handle)
    /\ passCalls' = <<>>
    /\ drvErr' = NilStr
    /\ UNCHANGED <<drvSpec, owned, remote, remoteOp, handle, handleState,
                   drvObserved, drvPayload, drvFuture, drvOutcome>>

\* client.Get: the observed state, nil when the object is not found
Get ==
    /\ drvPc = "get"
    /\ passCalls' = Append(passCalls, "Get")
    /\ \E err \in {NilStr, "transient"} :
          IF err = NilStr
          THEN /\ drvObserved' = remote
               /\ drvPc' = "diff"
               /\ UNCHANGED <<drvErr, drvOutcome>>
          ELSE /\ drvPc' = "idle"
               /\ drvErr' = err
               /\ drvOutcome' = "error"
               /\ UNCHANGED drvObserved
    /\ UNCHANGED <<drvSpec, owned, remote, remoteOp, handle, handleState,
                   drvPayload, drvFuture>>

\* spec.Parameters: nil ends the pass, a payload is submitted
Diff ==
    /\ drvPc = "diff"
    /\ passCalls' = Append(passCalls, "Parameters")
    /\ LET payload == DriverParameters(drvSpec.Names, drvObserved, owned) IN
          IF payload.nil
          THEN /\ drvPc' = "idle"
               /\ drvOutcome' = "noop"
               /\ drvPayload' = NoPayload
          ELSE /\ drvPc' = "submit"
               /\ drvPayload' = payload
               /\ UNCHANGED drvOutcome
    /\ drvObserved' = NoObject
    /\ UNCHANGED <<drvSpec, owned, remote, remoteOp, handle, handleState,
                   drvFuture, drvErr>>

\* client.CreateOrUpdateAsync: the object when the provider completed
\* synchronously, else a handle, or an error
Submit ==
    /\ drvPc = "submit"
    /\ passCalls' = Append(passCalls, "CreateOrUpdateAsync")
    /\ \E result \in {"sync", "async", "error"} :
          /\ owned' = commitOwnership(owned, drvSpec.Names, result = "sync")
          /\ CASE result = "sync" ->
                    /\ remote' = [exists |-> TRUE, rules |-> drvPayload.rules]
                    /\ remoteOp' = NoOperation
                    /\ drvPc' = "idle"
                    /\ drvOutcome' = "done"
                    /\ drvPayload' = NoPayload
                    /\ UNCHANGED <<drvFuture, drvErr>>
               [] result = "async" ->
                    /\ remoteOp' = [state |-> "running", rules |-> drvPayload.rules]
                    /\ drvFuture' = "future"
                    /\ drvPc' = "submitted"
                    /\ UNCHANGED <<remote, drvOutcome, drvPayload, drvErr>>
               [] result = "error" ->
                    /\ drvPc' = "idle"
                    /\ drvErr' = "transient"
                    /\ drvOutcome' = "error"
                    /\ drvPayload' = NoPayload
                    /\ UNCHANGED <<remote, remoteOp, drvFuture>>
    /\ UNCHANGED <<drvSpec, handle, handleState, drvObserved>>

\* the pass that submitted ends: the handle is persisted
PersistHandle ==
    /\ drvPc = "submitted"
    /\ handle' = drvFuture
    /\ handleState' = "Submitted"
    /\ drvFuture' = NilStr
    /\ drvPayload' = NoPayload
    /\ drvPc' = "idle"
    /\ drvOutcome' = "submitted"
    /\ UNCHANGED <<drvSpec, owned, remote, remoteOp, drvObserved, passCalls, drvErr>>

\* client.IsDone on the persisted handle
IsDone ==
    /\ drvPc = "poll"
    /\ passCalls' = Append(passCalls, "IsDone")
    /\ handleState' = "Polling"
    /\ owned' = commitOwnership(owned, drvSpec.Names, FALSE)
    /\ \E err \in {NilStr, "transient"} :
          LET done == err = NilStr /\ remoteOp.state # "running" IN
          IF done
          THEN /\ drvPc' = "result"
               /\ UNCHANGED <<drvErr, drvOutcome>>
          ELSE /\ drvPc' = "idle"
               /\ drvErr' = pollError(done, err)
               /\ drvOutcome' = IF err = NilStr THEN "notDone" ELSE "error"
    /\ UNCHANGED <<drvSpec, remote, remoteOp, handle, drvObserved, drvPayload, drvFuture>>

\* client.Result on a handle that is done: the handle is cleared
Result ==
    /\ drvPc = "result"
    /\ passCalls' = Append(passCalls, "Result")
    /\ LET ok == remoteOp.state = "succeeded" IN
          /\ handleState' = IF ok THEN "Done" ELSE "Failed"
          /\ owned' = commitOwnership(owned, drvSpec.Names, ok)
          /\ drvErr' = IF ok THEN NilStr ELSE "operation failed"
          /\ drvOutcome' = IF ok THEN "done" ELSE "failed"
    /\ handle' = NilStr
    /\ remoteOp' = NoOperation
    /\ drvPc' = "idle"
    /\ UNCHANGED <<drvSpec, remote, drvObserved, drvPayload, drvFuture>>

\* the provider ends the operation: the payload is applied, or it fails
RemoteProgress ==
    /\ remoteOp.state = "running"
    /\ \E ok \in BOOLEAN :
          IF ok
          THEN /\ remoteOp' = [remoteOp EXCEPT !.state = "succeeded"]
               /\ remote' = [exists |-> TRUE, rules |-> remoteOp.rules]
          ELSE /\ remoteOp' = [remoteOp EXCEPT !.state = "failed"]
               /\ UNCHANGED remote
    /\ UNCHANGED <<drvPc, drvSpec, owned, handle, handleState, drvObserved,
                   drvPayload, drvFuture, passCalls, drvErr, drvOutcome>>

\* the process stops in the middle of a pass and restarts: what is in
\* memory is lost, what is persisted and what is remote is kept
Crash ==
    /\ drvPc \notin {"idle", "off"}
    /\ drvPc' = "idle"
    /\ drvObserved' = NoObject
    /\ drvPayload' = NoPayload
    /\ drvFuture' = NilStr
    /\ passCalls' = <<>>
    /\ drvErr' = NilStr
    /\ drvOutcome' = "crashed"
    /\ UNCHANGED <<drvSpec, owned, remote, remoteOp, handle, handleState>>

DriverNext ==
    \/ StartPass /\ UNCHANGED <<nsgVars, vmssVars, vmVars, idVars, aiVars, naVars>>
    \/ Get /\ UNCHANGED <<nsgVars, vmssVars, vmVars, idVars, aiVars, naVars>>
    \/ Diff /\ UNCHANGED <<nsgVars, vmssVars, vmVars, idVars, aiVars, naVars>>
    \/ Submit /\ UNCHANGED <<nsgVars, vmssVars, vmVars, idVars, aiVars, naVars>>
    \/ PersistHandle /\ UNCHANGED <<nsgVars, vmssVars, vmVars, idVars, aiVars, naVars>>
    \/ IsDone /\ UNCHANGED <<nsgVars, vmssVars, vmVars, idVars, aiVars, naVars>>
    \/ Result /\ UNCHANGED <<nsgVars, vmssVars, vmVars, idVars, aiVars, naVars>>
    \/ RemoteProgress /\ UNCHANGED <<nsgVars, vmssVars, vmVars, idVars, aiVars, naVars>>
    \/ Crash /\ UNCHANGED <<nsgVars, vmssVars, vmVars, idVars, aiVars, naVars>>

SpecDriver == DriverInit /\ [][DriverNext]_vars

(***************************************************************************)
(* The identity converters (azure/converters/identity.go).  A string is a  *)
(* sequence of parts, so that a prefix can be told from the rest; an error *)
(* is the chain of its messages, outermost first, and nil is <<>>.         *)
(***************************************************************************)
\* most parts in a provider ID
MaxIDParts == 2
\* longest list of user assigned identities
MaxIdentities == 2

\* azureutil.ProviderIDPrefix
ProviderIDPrefix == "azure://"

ErrUserAssignedIdentitiesNotFound ==
    "the user-assigned identity provider ids must not be null or empty for 'UserAssigned' identity type"

\* errors.Wrap
Wrap(err, msg) == <<msg>> \o err

\* errors.Is
Is(err, target) == \E i \in 1..Len(err) : err[i] = target

\* strings.TrimPrefix
TrimPrefix(id, prefix) ==
    IF id # <<>> /\ Head(id) = prefix THEN Tail(id) ELSE id

\* as sanitized, but the prefix is kept
sanitizedKept(id) == id

\* sanitized removes the "azure://" prefix from the id
sanitized(id) == TrimPrefix(id, ProviderIDPrefix)

\* a nil map
NoMap == [nil |-> TRUE, keys |-> {}, values |-> NilStr]

\* the keys of the map after the loop over the identities
RECURSIVE userIdentitiesMap(_)
userIdentitiesMap(identities) ==
    IF identities = <<>> THEN {}
    ELSE {sanitized(Head(identities).ProviderID)} \cup userIdentitiesMap(Tail(identities))

UserAssignedIdentitiesToVMSDK(identities) ==
    IF Len(identities) = 0
    THEN [map |-> NoMap, err |-> <<ErrUserAssignedIdentitiesNotFound>>]
    ELSE [map |-> [nil |-> FALSE, keys |-> userIdentitiesMap(identities),
                   values |-> "VirtualMachineIdentityUserAssignedIdentitiesValue"],
          err |-> <<>>]

UserAssignedIdentitiesToVMSSSDK(identities) ==
    IF Len(identities) = 0
    THEN [map |-> NoMap, err |-> <<ErrUserAssignedIdentitiesNotFound>>]
    ELSE [map |-> [nil |-> FALSE, keys |-> userIdentitiesMap(identities),
                   values |-> "VirtualMachineScaleSetIdentityUserAssignedIdentitiesValue"],
          err |-> <<>>]

\* a nil *compute.VirtualMachineIdentity
NoIdentity == [kind |-> "nil", Type |-> NilStr, UserAssignedIdentities |-> NoMap]

VMIdentityToVMSDK(identity, uami) ==
    IF identity = "SystemAssigned"
    THEN [identity |-> [kind |-> "VirtualMachineIdentity", Type |-> "SystemAssigned",
                        UserAssignedIdentities |-> NoMap],
          err |-> <<>>]
    ELSE IF identity = "UserAssigned"
    THEN LET r == UserAssignedIdentitiesToVMSDK(uami) IN
         IF r.err # <<>>
         THEN [identity |-> NoIdentity, err |-> Wrap(r.err, "failed to assign VM identity")]
         ELSE [identity |-> [kind |-> "VirtualMachineIdentity", Type |-> "UserAssigned",
                             UserAssignedIdentities |-> r.map],
               err |-> <<>>]
    ELSE [identity |-> NoIdentity, err |-> <<>>]

\* the provider IDs: with and without the prefix, the prefix alone, the
\* prefix twice, the prefix not in front, the empty string
ProviderIDs == SeqsUpTo({ProviderIDPrefix, "my-user-id"}, MaxIDParts)

\* infrav1.VMIdentity
VMIdentities == {"None", "SystemAssigned", "UserAssigned", ""}

IdentityInit ==
    /\ idPc = "VMIdentityToVMSDK"
    /\ idIdentity \in VMIdentities
    /\ idUAMI \in SeqsUpTo({ [ProviderID |-> id] : id \in ProviderIDs }, MaxIdentities)
    /\ idVM = [identity |-> NoIdentity, err |-> <<>>]
    /\ idVMMap = [map |-> NoMap, err |-> <<>>]
    /\ idVMSSMap = [map |-> NoMap, err |-> <<>>]
    /\ nsgPc = "idle"
    /\ nsgSpec = NilStr
    /\ nsgExisting = NilStr
    /\ nsgResult = NilStr
    /\ nsgErr = NilStr
    /\ nsgCalls = 0
    /\ vmssPc = "idle"
    /\ vmssSpec = NilStr
    /\ vmssExisting = NilStr
    /\ vmssResult = NilStr
    /\ vmssErr = NilStr
    /\ vmssTerminal = FALSE
    /\ drvPc = "off"
    /\ drvSpec = NilStr
    /\ owned = {}
    /\ remote = NilStr
    /\ remoteOp = NilStr
    /\ handle = NilStr
    /\ handleState = NilStr
    /\ drvObserved = NilStr
    /\ drvPayload = NilStr
    /\ drvFuture = NilStr
    /\ passCalls = <<>>
    /\ drvErr = NilStr
    /\ drvOutcome = NilStr
    /\ vmPc = "idle"
    /\ vmSpec = NilStr
    /\ vmExisting = NilStr
    /\ vmResult = NilStr
    /\ vmErr = NilStr
    /\ vmTerminal = FALSE
    /\ aiType = NilStr
    /\ aiPc = NilStr
    /\ aiCalls = NilStr
    /\ aiErr = NilStr
    /\ aiReturned = NilStr
    /\ aiIdentities = 0
    /\ aiBindings = 0
    /\ naPc = "idle"
    /\ naAllowed = NilStr
    /\ naNamespace = NilStr
    /\ naCluster = {}
    /\ naResult = FALSE
    /\ naCalls = <<>>
    /\ naListErr = NilStr

CallVMIdentityToVMSDK ==
    /\ idPc = "VMIdentityToVMSDK"
    /\ idVM' = VMIdentityToVMSDK(idIdentity, idUAMI)
    /\ idPc' = "UserAssignedIdentitiesToVMSDK"
    /\ UNCHANGED <<idIdentity, idUAMI, idVMMap, idVMSSMap>>

CallUserAssignedIdentitiesToVMSDK ==
    /\ idPc = "UserAssignedIdentitiesToVMSDK"
    /\ idVMMap' = UserAssignedIdentitiesToVMSDK(idUAMI)
    /\ idPc' = "UserAssignedIdentitiesToVMSSSDK"
    /\ UNCHANGED <<idIdentity, idUAMI, idVM, idVMSSMap>>

CallUserAssignedIdentitiesToVMSSSDK ==
    /\ idPc = "UserAssignedIdentitiesToVMSSSDK"
    /\ idVMSSMap' = UserAssignedIdentitiesToVMSSSDK(idUAMI)
    /\ idPc' = "done"
    /\ UNCHANGED <<idIdentity, idUAMI, idVM, idVMMap>>

IdentityNext ==
    \/ CallVMIdentityToVMSDK /\ UNCHANGED <<nsgVars, vmssVars, vmVars, drvVars, aiVars, naVars>>
    \/ CallUserAssignedIdentitiesToVMSDK /\ UNCHANGED <<nsgVars, vmssVars, vmVars, drvVars, aiVars, naVars>>
    \/ CallUserAssignedIdentitiesToVMSSSDK /\ UNCHANGED <<nsgVars, vmssVars, vmVars, drvVars, aiVars, naVars>>

SpecIdentity == IdentityInit /\ [][IdentityNext]_vars

(***************************************************************************)
(* createAzureIdentityWithBindings: callers that copy the cluster identity *)
(* into an AzureIdentity and an AzureIdentityBinding of the manager        *)
(* namespace, through the API server.  Each call of kubeClient.Create is   *)
(* one step, so that the calls of several callers interleave.              *)
(***************************************************************************)
\* callers that run createAzureIdentityWithBindings for one cluster identity
MaxCallers == 2

Callers == 1..MaxCallers

\* infrav1.IdentityType
IdentityTypes ==
    {"UserAssignedMSI", "ServicePrincipal", "ServicePrincipalCertificate",
     "ManualServicePrincipal", ""}

getAzureIdentityType(type) ==
    IF type \in {"UserAssignedMSI", "ServicePrincipal", "ServicePrincipalCertificate"}
    THEN [type |-> type, err |-> NilStr]
    ELSE [type |-> "-1", err |-> "AzureIdentity does not have a valid type"]

\* kubeClient.Create of an object whose name n objects have: the object is
\* stored unless the name is taken; the call may fail for another reason,
\* before or after the object was stored
Create(n) ==
    IF n > 0
    THEN { [n |-> n, err |-> "AlreadyExists"], [n |-> n, err |-> "ServerTimeout"] }
    ELSE { [n |-> n + 1, err |-> NilStr], [n |-> n, err |-> "ServerTimeout"],
           [n |-> n + 1, err |-> "ServerTimeout"] }

IsAlreadyExists(err) == err = "AlreadyExists"

\* as createFailed, but AlreadyExists is a failure too
createFailedAlreadyExists(err) == err # NilStr

\* err != nil && !apierrors.IsAlreadyExists(err)
createFailed(err) == err # NilStr /\ ~IsAlreadyExists(err)

AzureIdentityInit ==
    /\ aiType \in IdentityTypes
    /\ aiPc = [c \in Callers |-> "idle"]
    /\ aiCalls = [c \in Callers |-> <<>>]
    /\ aiErr = [c \in Callers |-> NilStr]
    /\ aiReturned = [c \in Callers |-> FALSE]
    /\ aiIdentities \in {0, 1}
    /\ aiBindings = 0
    /\ nsgPc = "idle"
    /\ nsgSpec = NilStr
    /\ nsgExisting = NilStr
    /\ nsgResult = NilStr
    /\ nsgErr = NilStr
    /\ nsgCalls = 0
    /\ vmssPc = "idle"
    /\ vmssSpec = NilStr
    /\ vmssExisting = NilStr
    /\ vmssResult = NilStr
    /\ vmssErr = NilStr
    /\ vmssTerminal = FALSE
    /\ drvPc = "off"
    /\ drvSpec = NilStr
    /\ owned = {}
    /\ remote = NilStr
    /\ remoteOp = NilStr
    /\ handle = NilStr
    /\ handleState = NilStr
    /\ drvObserved = NilStr
    /\ drvPayload = NilStr
    /\ drvFuture = NilStr
    /\ passCalls = <<>>
    /\ drvErr = NilStr
    /\ drvOutcome = NilStr
    /\ vmPc = "idle"
    /\ vmSpec = NilStr
    /\ vmExisting = NilStr
    /\ vmResult = NilStr
    /\ vmErr = NilStr
    /\ vmTerminal = FALSE
    /\ idPc = "idle"
    /\ idIdentity = NilStr
    /\ idUAMI = NilStr
    /\ idVM = NilStr
    /\ idVMMap = NilStr
    /\ idVMSSMap = NilStr
    /\ naPc = "idle"
    /\ naAllowed = NilStr
    /\ naNamespace = NilStr
    /\ naCluster = {}
    /\ naResult = FALSE
    /\ naCalls = <<>>
    /\ naListErr = NilStr

\* a caller enters createAzureIdentityWithBindings
AzureIdentityCall(c) ==
    /\ aiPc[c] = "idle"
    /\ aiPc' = [aiPc EXCEPT ![c] = "getAzureIdentityType"]
    /\ aiCalls' = [aiCalls EXCEPT ![c] = <<>>]
    /\ aiErr' = [aiErr EXCEPT ![c] = NilStr]
    /\ aiReturned' = [aiReturned EXCEPT ![c] = FALSE]
    /\ UNCHANGED <<aiType, aiIdentities, aiBindings>>

\* getAzureIdentityType: an error returns at once
AzureIdentityGetType(c) ==
    /\ aiPc[c] = "getAzureIdentityType"
    /\ LET r == getAzureIdentityType(aiType) IN
          IF r.err # NilStr
          THEN /\ aiPc' = [aiPc EXCEPT ![c] = "idle"]
               /\ aiErr' = [aiErr EXCEPT ![c] = r.err]
               /\ aiReturned' = [aiReturned EXCEPT ![c] = TRUE]
          ELSE /\ aiPc' = [aiPc EXCEPT ![c] = "createIdentity"]
               /\ UNCHANGED <<aiErr, aiReturned>>
    /\ UNCHANGED <<aiType, aiCalls, aiIdentities, aiBindings>>

\* kubeClient.Create(ctx, copiedIdentity)
AzureIdentityCreateIdentity(c) ==
    /\ aiPc[c] = "createIdentity"
    /\ \E r \in Create(aiIdentities) :
          /\ aiIdentities' = r.n
          /\ aiCalls' = [aiCalls EXCEPT ![c] =
                Append(@, [object |-> "AzureIdentity", err |-> r.err,
                           created |-> r.n > aiIdentities])]
          /\ IF createFailed(r.err)
             THEN /\ aiPc' = [aiPc EXCEPT ![c] = "idle"]
                  /\ aiErr' = [aiErr EXCEPT ![c] =
                        "failed to create copied AzureIdentity: " \o r.err]
                  /\ aiReturned' = [aiReturned EXCEPT ![c] = TRUE]
             ELSE /\ aiPc' = [aiPc EXCEPT ![c] = "createBinding"]
                  /\ UNCHANGED <<aiErr, aiReturned>>
    /\ UNCHANGED <<aiType, aiBindings>>

\* kubeClient.Create(ctx, azureIdentityBinding), and the return
AzureIdentityCreateBinding(c) ==
    /\ aiPc[c] = "createBinding"
    /\ \E r \in Create(aiBindings) :
          /\ aiBindings' = r.n
          /\ aiCalls' = [aiCalls EXCEPT ![c] =
                Append(@, [object |-> "AzureIdentityBinding", err |-> r.err,
                           created |-> r.n > aiBindings])]
          /\ aiErr' = [aiErr EXCEPT ![c] =
                IF createFailed(r.err)
                THEN "failed to create AzureIdentityBinding: " \o r.err
                ELSE NilStr]
    /\ aiPc' = [aiPc EXCEPT ![c] = "idle"]
    /\ aiReturned' = [aiReturned EXCEPT ![c] = TRUE]
    /\ UNCHANGED <<aiType, aiIdentities>>

AzureIdentityNext ==
    \/ \E c \in Callers : AzureIdentityCall(c)
          /\ UNCHANGED <<nsgVars, vmssVars, vmVars, drvVars, idVars, naVars>>
    \/ \E c \in Callers : AzureIdentityGetType(c)
          /\ UNCHANGED <<nsgVars, vmssVars, vmVars, drvVars, idVars, naVars>>
    \/ \E c \in Callers : AzureIdentityCreateIdentity(c)
          /\ UNCHANGED <<nsgVars, vmssVars, vmVars, drvVars, idVars, naVars>>
    \/ \E c \in Callers : AzureIdentityCreateBinding(c)
          /\ UNCHANGED <<nsgVars, vmssVars, vmVars, drvVars, idVars, naVars>>

SpecAzureIdentity == AzureIdentityInit /\ [][AzureIdentityNext]_vars

(***************************************************************************)
(* IsClusterNamespaceAllowed: the decision whether a cluster of a          *)
(* namespace may use a cluster identity.                                   *)
(***************************************************************************)
\* longest AllowedNamespaces.NamespaceList
MaxNamespaceList == 2

NamespaceNames == {"default", "team-a"}

\* the labels of a namespace of the cluster
NamespaceLabels(name) == IF name = "team-a" THEN {<<"team", "a">>} ELSE {}

\* a slice of names: nil, or its items
NilList == [nil |-> TRUE, items |-> <<>>]

\* a nil *metav1.LabelSelector
NilSelector == [nil |-> TRUE, MatchLabels |-> {}, MatchExpressions |-> <<>>]

\* a nil *infrav1.AllowedNamespaces
NilAllowedNamespaces == [nil |-> TRUE, NamespaceList |-> NilList, Selector |-> NilSelector]

\* the zero value infrav1.AllowedNamespaces{}
ZeroAllowedNamespaces == [NilAllowedNamespaces EXCEPT !.nil = FALSE]

\* labels.Nothing()
Nothing == [nothing |-> TRUE, requirements |-> {}]

\* labels.Everything()
Everything == [nothing |-> FALSE, requirements |-> {}]

\* metav1.LabelSelectorAsSelector: nil selects nothing, a selector without
\* labels and expressions selects everything, an unknown operator is an error
LabelSelectorAsSelector(ps) ==
    IF ps.nil THEN [selector |-> Nothing, err |-> NilStr]
    ELSE IF Cardinality(ps.MatchLabels) + Len(ps.MatchExpressions) = 0
    THEN [selector |-> Everything, err |-> NilStr]
    ELSE IF \E i \in 1..Len(ps.MatchExpressions) :
               ps.MatchExpressions[i].operator \notin {"Exists", "DoesNotExist"}
    THEN [selector |-> Nothing, err |-> "is not a valid label selector operator"]
    ELSE [selector |->
             [nothing |-> FALSE,
              requirements |->
                 { [key |-> l[1], operator |-> "=", value |-> l[2]] : l \in ps.MatchLabels }
                 \cup { [key |-> ps.MatchExpressions[i].key,
                         operator |-> ps.MatchExpressions[i].operator, value |-> ""] :
                           i \in 1..Len(ps.MatchExpressions) }],
          err |-> NilStr]

\* as Empty, but no selector is empty
EmptyNever(selector) == FALSE

\* Selector.Empty: no requirement, and not the selector of nothing
Empty(selector) == ~selector.nothing /\ selector.requirements = {}

\* Selector.Matches
Matches(selector, labels) ==
    /\ ~selector.nothing
    /\ \A r \in selector.requirements :
          CASE r.operator = "=" -> <<r.key, r.value>> \in labels
            [] r.operator = "Exists" -> \E l \in labels : l[1] = r.key
            [] r.operator = "DoesNotExist" -> ~\E l \in labels : l[1] = r.key

\* k8sClient.List with client.MatchingLabelsSelector: the names of the
\* namespaces of the cluster that the selector matches
List(cluster, selector) == { n \in cluster : Matches(selector, NamespaceLabels(n)) }

\* the decision, the calls made, and the error of the List call
IsClusterNamespaceAllowed(cluster, allowedNamespaces, namespace, listErr) ==
    IF allowedNamespaces.nil
    THEN [allowed |-> FALSE, calls |-> <<>>, listErr |-> NilStr]
    ELSE IF allowedNamespaces = ZeroAllowedNamespaces
    THEN [allowed |-> TRUE, calls |-> <<>>, listErr |-> NilStr]
    ELSE IF \E i \in 1..Len(allowedNamespaces.NamespaceList.items) :
               allowedNamespaces.NamespaceList.items[i] = namespace
    THEN [allowed |-> TRUE, calls |-> <<>>, listErr |-> NilStr]
    ELSE LET r == LabelSelectorAsSelector(allowedNamespaces.Selector) IN
         IF r.err # NilStr
         THEN [allowed |-> FALSE, calls |-> <<"LabelSelectorAsSelector">>,
               listErr |-> NilStr]
         ELSE IF Empty(r.selector)
         THEN [allowed |-> FALSE, calls |-> <<"LabelSelectorAsSelector">>,
               listErr |-> NilStr]
         ELSE IF listErr # NilStr
         THEN [allowed |-> FALSE, calls |-> <<"LabelSelectorAsSelector", "List">>,
               listErr |-> listErr]
         ELSE [allowed |-> \E n \in List(cluster, r.selector) : n = namespace,
               calls |-> <<"LabelSelectorAsSelector", "List">>, listErr |-> NilStr]

\* the label selectors: nil, empty, with labels, with an expression, with an
\* expression whose operator is unknown
LabelSelectors ==
    { NilSelector } \cup
    { [nil |-> FALSE, MatchLabels |-> labels, MatchExpressions |-> expressions] :
         labels \in SUBSET {<<"team", "a">>, <<"team", "b">>},
         expressions \in { <<>>, <<[key |-> "team", operator |-> "Exists"]>>,
                           <<[key |-> "team", operator |-> "Bogus"]>> } }

AllowedNamespacesValues ==
    { NilAllowedNamespaces } \cup
    { [nil |-> FALSE, NamespaceList |-> list, Selector |-> selector] :
         list \in { NilList } \cup
                  { [nil |-> FALSE, items |-> items] :
                       items \in SeqsUpTo(NamespaceNames, MaxNamespaceList) },
         selector \in LabelSelectors }

NamespaceAllowedInit ==
    /\ naPc = "call"
    /\ naAllowed \in AllowedNamespacesValues
    /\ naNamespace \in NamespaceNames
    /\ naCluster \in SUBSET NamespaceNames
    /\ naResult = FALSE
    /\ naCalls = <<>>
    /\ naListErr = NilStr
    /\ nsgPc = "idle"
    /\ nsgSpec = NilStr
    /\ nsgExisting = NilStr
    /\ nsgResult = NilStr
    /\ nsgErr = NilStr
    /\ nsgCalls = 0
    /\ vmssPc = "idle"
    /\ vmssSpec = NilStr
    /\ vmssExisting = NilStr
    /\ vmssResult = NilStr
    /\ vmssErr = NilStr
    /\ vmssTerminal = FALSE
    /\ drvPc = "off"
    /\ drvSpec = NilStr
    /\ owned = {}
    /\ remote = NilStr
    /\ remoteOp = NilStr
    /\ handle = NilStr
    /\ handleState = NilStr
    /\ drvObserved = NilStr
    /\ drvPayload = NilStr
    /\ drvFuture = NilStr
    /\ passCalls = <<>>
    /\ drvErr = NilStr
    /\ drvOutcome = NilStr
    /\ vmPc = "idle"
    /\ vmSpec = NilStr
    /\ vmExisting = NilStr
    /\ vmResult = NilStr
    /\ vmErr = NilStr
    /\ vmTerminal = FALSE
    /\ idPc = "idle"
    /\ idIdentity = NilStr
    /\ idUAMI = NilStr
    /\ idVM = NilStr
    /\ idVMMap = NilStr
    /\ idVMSSMap = NilStr
    /\ aiType = NilStr
    /\ aiPc = NilStr
    /\ aiCalls = NilStr
    /\ aiErr = NilStr
    /\ aiReturned = NilStr
    /\ aiIdentities = 0
    /\ aiBindings = 0

\* IsClusterNamespaceAllowed(ctx, k8sClient, allowedNamespaces, namespace)
NamespaceAllowedCall ==
    /\ naPc = "call"
    /\ \E listErr \in {NilStr, "ServerTimeout"} :
          LET r == IsClusterNamespaceAllowed(naCluster, naAllowed, naNamespace, listErr) IN
          /\ naResult' = r.allowed
          /\ naCalls' = r.calls
          /\ naListErr' = r.listErr
    /\ naPc' = "done"
    /\ UNCHANGED <<naAllowed, naNamespace, naCluster>>

NamespaceAllowedNext ==
    NamespaceAllowedCall /\ UNCHANGED <<nsgVars, vmssVars, vmVars, drvVars, idVars, aiVars>>

SpecNamespaceAllowed == NamespaceAllowedInit /\ [][NamespaceAllowedNext]_vars

(***************************************************************************)
(* Properties of NSGSpec.Parameters                                        *)
(***************************************************************************)
specRules == nsgSpec.SecurityRules
specNames == { specRules[i].Name : i \in 1..Len(specRules) }
groupRules == nsgExisting.SecurityRules
payloadRules == nsgResult.SecurityRules

\* Parameters has returned for an observed security group
DiffedExisting == nsgPc = "diffed" /\ nsgExisting.kind = "SecurityGroup"

\* a rule CAPZ applied last that the spec no longer has
Retractable(rule) ==
    rule.Name \in nsgSpec.LastAppliedSecurityRules /\ rule.Name \notin specNames

Count(seq, x) == Cardinality({ i \in 1..Len(seq) : seq[i] = x })

IsPermutation(a, b) ==
    /\ Len(a) = Len(b)
    /\ \A x \in Range(a) \cup Range(b) : Count(a, x) = Count(b, x)

\* C1: idempotence.  When Parameters returned a payload and the observed
\* group holds exactly the rules of that payload, Parameters called again
\* with the same spec returns nil.
C1_Idempotence ==
    (nsgPc = "diffed" /\ nsgCalls = 2) => (nsgResult.kind = "nil" /\ nsgErr = NilStr)

\* C2: ownership preservation.  In a non-nil payload for an observed group,
\* every observed rule whose name is not a key of LastAppliedSecurityRules
\* is in the payload, unchanged.
C2_OwnershipPreserved ==
    (DiffedExisting /\ nsgResult.kind = "SecurityGroup") =>
        \A i \in 1..Len(groupRules) :
            groupRules[i].Name \notin nsgSpec.LastAppliedSecurityRules
                => groupRules[i] \in Range(payloadRules)

C2_Witness ==
    /\ DiffedExisting /\ nsgResult.kind = "SecurityGroup"
    /\ nsgSpec.LastAppliedSecurityRules # {}
    /\ \E i \in 1..Len(groupRules) :
          /\ groupRules[i].Name \notin nsgSpec.LastAppliedSecurityRules
          /\ groupRules[i].Name \notin specNames
          /\ groupRules[i] \in Range(payloadRules)

\* C3: retraction.  For an observed group, an observed rule is left out of
\* the payload exactly when its name is a key of LastAppliedSecurityRules
\* and not the name of a desired rule; and when such a rule is observed
\* the result is a payload, not nil.
C3_Retraction ==
    DiffedExisting =>
        /\ (\E i \in 1..Len(groupRules) : Retractable(groupRules[i]))
              => nsgResult.kind = "SecurityGroup"
        /\ nsgResult.kind = "SecurityGroup" =>
              \A i \in 1..Len(groupRules) :
                  (groupRules[i] \notin Range(payloadRules))
                      <=> Retractable(groupRules[i])

C3_Witness ==
    /\ DiffedExisting /\ nsgResult.kind = "SecurityGroup"
    /\ \E i, j \in 1..Len(groupRules) :
          /\ Retractable(groupRules[i])
          /\ groupRules[i] \notin Range(payloadRules)
          /\ groupRules[j].Name \in nsgSpec.LastAppliedSecurityRules
          /\ groupRules[j] \in Range(payloadRules)

\* C4: no-op short circuit.  When the observed rules are a permutation of
\* the SDK conversions of the desired rules, Parameters returns nil and no
\* error, whatever the content of the rules.
C4_NoOpOnPermutation ==
    (DiffedExisting /\ nsgCalls = 1
        /\ IsPermutation(groupRules, newGroupRules(specRules)))
    => (nsgResult.kind = "nil" /\ nsgErr = NilStr)

\* the rule differs from the conversion of the desired rule of its name
DiffersFrom(observed, sdkRule) ==
    /\ observed.Name = sdkRule.Name
    /\ \/ observed.DestinationPortRange # sdkRule.DestinationPortRange
       \/ observed.Protocol # sdkRule.Protocol
       \/ observed.Access # sdkRule.Access
       \/ observed.Direction # sdkRule.Direction

\* C5: change detection.  When a desired rule has the name of an observed
\* rule and differs from it in destination port range, protocol, access or
\* direction, Parameters returns a payload (stated for rule lists whose
\* names are pairwise different).
C5_ChangeDetected ==
    (DiffedExisting /\ nsgCalls = 1
        /\ UniqueNames(specRules) /\ UniqueNames(groupRules)
        /\ \E i \in 1..Len(specRules), j \in 1..Len(groupRules) :
              DiffersFrom(groupRules[j], SecurityRuleToSDK(specRules[i])))
    => nsgResult.kind = "SecurityGroup"

\* C6: replacement, not duplication.  When a desired rule is detected as
\* different from the observed rule of its name, the payload holds the
\* desired version and not the observed one; with pairwise different names
\* in the spec and in the observed group, no two rules of the payload share
\* a name.
C6_ReplacedNotDuplicated ==
    (DiffedExisting /\ nsgCalls = 1 /\ nsgResult.kind = "SecurityGroup"
        /\ UniqueNames(specRules) /\ UniqueNames(groupRules))
    => /\ \A i \in 1..Len(specRules), j \in 1..Len(groupRules) :
            (/\ groupRules[j].Name = specRules[i].Name
             /\ ~ruleExists(groupRules, SecurityRuleToSDK(specRules[i]))
             /\ groupRules[j] # SecurityRuleToSDK(specRules[i]))
            => /\ SecurityRuleToSDK(specRules[i]) \in Range(payloadRules)
               /\ groupRules[j] \notin Range(payloadRules)
       /\ \A i, j \in 1..Len(payloadRules) :
            i # j => payloadRules[i].Name # payloadRules[j].Name

\* C7: for an observed group Parameters returns nil exactly when every
\* desired rule is found in the observed rules and no observed rule is both
\* a key of LastAppliedSecurityRules and absent from the spec; rules that
\* were never applied do not cause an update.
C7_NilIffNothingToDo ==
    DiffedExisting =>
        (nsgResult.kind = "nil" <=>
            /\ \A i \in 1..Len(specRules) :
                  ruleExists(groupRules, SecurityRuleToSDK(specRules[i]))
            /\ ~ \E j \in 1..Len(groupRules) : Retractable(groupRules[j]))

C7_Witness ==
    /\ DiffedExisting /\ nsgCalls = 1 /\ nsgResult.kind = "nil" /\ nsgErr = NilStr
    /\ specRules # <<>>
    /\ nsgSpec.LastAppliedSecurityRules # {}
    /\ \E j \in 1..Len(groupRules) :
          /\ groupRules[j].Name \notin specNames
          /\ groupRules[j].Name \notin nsgSpec.LastAppliedSecurityRules

\* C8: creation.  When nothing is observed, Parameters returns, without
\* error, a payload whose rules are the SDK conversions of the desired
\* rules in their order, with no etag, whatever LastAppliedSecurityRules is.
C8_Creation ==
    (nsgPc = "diffed" /\ nsgExisting.kind = "nil") =>
        /\ nsgErr = NilStr
        /\ nsgResult.kind = "SecurityGroup"
        /\ nsgResult.Etag = NilStr
        /\ Len(payloadRules) = Len(specRules)
        /\ \A i \in 1..Len(specRules) :
              payloadRules[i] = SecurityRuleToSDK(specRules[i])

C8_Witness ==
    /\ nsgPc = "diffed" /\ nsgExisting.kind = "nil"
    /\ Len(specRules) = 2 /\ specRules[1] # specRules[2]
    /\ nsgSpec.LastAppliedSecurityRules = TrackedNames
    /\ Len(payloadRules) = 2

sshRule == InfraRule("ssh", "Tcp", "Inbound", "*", "*", "*", "22")
httpRule == InfraRule("http", "Tcp", "Inbound", "*", "*", "*", "80")
customRule == SDKRule("custom", "Tcp", "Allow", "Inbound", "*", "*", "*", "443")

\* desired {ssh:22, http:80}, observed {ssh:22, custom:443}, prior
\* ownership {ssh, custom, http}
Scenario ==
    /\ DiffedExisting /\ nsgCalls = 1
    /\ specRules = <<sshRule, httpRule>>
    /\ groupRules = <<SecurityRuleToSDK(sshRule), customRule>>
    /\ nsgSpec.LastAppliedSecurityRules = {"ssh", "custom", "http"}

\* C9, as stated: in the scenario the payload holds exactly http:80, ssh:22
\* and custom:443.
C9_ScenarioCustomPreserved ==
    Scenario =>
        /\ nsgResult.kind = "SecurityGroup"
        /\ Len(payloadRules) = 3
        /\ Range(payloadRules) =
              {SecurityRuleToSDK(httpRule), SecurityRuleToSDK(sshRule), customRule}

\* C9, amended: in the scenario the payload holds exactly http:80 and
\* ssh:22; custom, a key of the prior ownership that the spec does not
\* have, is retracted.
C9_ScenarioCustomRetracted ==
    Scenario =>
        /\ nsgResult.kind = "SecurityGroup"
        /\ Len(payloadRules) = 2
        /\ Range(payloadRules) = {SecurityRuleToSDK(httpRule), SecurityRuleToSDK(sshRule)}

C9_Witness == Scenario /\ nsgResult.kind = "SecurityGroup" /\ nsgErr = NilStr

(***************************************************************************)
(* Properties of ScaleSetSpec.Parameters                                   *)
(***************************************************************************)
\* Parameters has returned a payload for an observed scale set
VMSSUpdatePayload ==
    vmssPc = "diffed" /\ vmssExisting.kind = "VMSS" /\ vmssResult.kind = "VMSS"

\* C10: the surge never shrinks below desired.  Every payload returned for
\* an existing scale set has a Sku.Capacity that is at least the Capacity
\* of the spec.
C10_SurgeNotBelowDesired ==
    VMSSUpdatePayload => vmssResult.Sku.Capacity >= vmssSpec.Capacity

C10_Witness ==
    /\ VMSSUpdatePayload
    /\ vmssSpec.MaxSurge > 0
    /\ vmssSpec.Capacity > 0
    /\ vmssResult.Sku.Capacity = vmssSpec.Capacity + vmssSpec.MaxSurge

\* Parameters has returned, without error, for an observed scale set
VMSSDiffedExisting ==
    vmssPc = "diffed" /\ vmssExisting.kind = "VMSS" /\ vmssErr = NilStr

\* the spec asks for a model other than the one of the observed scale set
ModelChange == vmssExisting.Sku.Name # vmssSpec.Size

\* every instance of the scale set runs the latest model
Converged ==
    \A i \in 1..Len(vmssSpec.VMSSInstances) : vmssSpec.VMSSInstances[i].LatestModelApplied

\* C11: with HasReplicasExternallyManaged no surge is computed.  A payload
\* returned for an existing scale set has the Capacity of the spec as its
\* Sku.Capacity, whatever MaxSurge, the model changes and the instances are.
C11_NoSurgeWhenExternallyManaged ==
    (VMSSUpdatePayload /\ vmssSpec.HasReplicasExternallyManaged)
        => vmssResult.Sku.Capacity = vmssSpec.Capacity

C11_Witness ==
    /\ VMSSUpdatePayload /\ vmssSpec.HasReplicasExternallyManaged
    /\ vmssSpec.MaxSurge > 0
    /\ ModelChange /\ ~Converged
    /\ vmssSpec.OrchestrationMode = "Uniform"
    /\ vmssResult.Sku.Capacity = vmssSpec.Capacity

\* C12, as stated: without externally managed replicas and with a positive
\* MaxSurge, the target capacity is Capacity + MaxSurge when there is a
\* model change or the fleet is not converged, in every orchestration mode,
\* and Capacity in every other case.
C12_SurgePolicyEveryMode ==
    VMSSUpdatePayload =>
        vmssResult.Sku.Capacity =
            IF /\ ~vmssSpec.HasReplicasExternallyManaged
               /\ vmssSpec.MaxSurge > 0
               /\ (ModelChange \/ ~Converged)
            THEN vmssSpec.Capacity + vmssSpec.MaxSurge
            ELSE vmssSpec.Capacity

\* C12, amended: the fleet that is not converged causes a surge only when
\* the orchestration mode is not Flexible; in Flexible mode only a model
\* change does.
C12_SurgePolicy ==
    VMSSUpdatePayload =>
        vmssResult.Sku.Capacity =
            IF /\ ~vmssSpec.HasReplicasExternallyManaged
               /\ vmssSpec.MaxSurge > 0
               /\ \/ ModelChange
                  \/ (vmssSpec.OrchestrationMode # "Flexible" /\ ~Converged)
            THEN vmssSpec.Capacity + vmssSpec.MaxSurge
            ELSE vmssSpec.Capacity

C12_Witness ==
    /\ VMSSUpdatePayload
    /\ ~vmssSpec.HasReplicasExternallyManaged /\ vmssSpec.MaxSurge > 0
    /\ vmssSpec.OrchestrationMode = "Flexible"
    /\ ~ModelChange /\ ~Converged
    /\ vmssResult.Sku.Capacity = vmssSpec.Capacity

\* the capacity Parameters sends: the Capacity of the spec, surged when the
\* surge applies
TargetCapacity ==
    IF shouldSurge(vmssSpec, ModelChange,
                   vmssSpec.OrchestrationMode = "Flexible" \/ Converged)
    THEN vmssSpec.Capacity + vmssSpec.MaxSurge
    ELSE vmssSpec.Capacity

\* C13, as stated: when the capacity of the existing scale set is at most
\* the Capacity of the spec, there is no model change and
\* ShouldPatchCustomData is false, Parameters returns nil.
C13_NoUpdateWhenCurrentAtMostDesired ==
    (VMSSDiffedExisting /\ vmssExisting.Sku.Capacity <= vmssSpec.Capacity
        /\ ~ModelChange /\ ~vmssSpec.ShouldPatchCustomData)
    => vmssResult.kind = "nil"

\* C13, amended: when the capacity to send (the Capacity of the spec, plus
\* MaxSurge when the surge applies) is at most the capacity of the existing
\* scale set, there is no model change and ShouldPatchCustomData is false,
\* Parameters returns nil.
C13_NoUpdateWhenNoIncrease ==
    (VMSSDiffedExisting /\ TargetCapacity <= vmssExisting.Sku.Capacity
        /\ ~ModelChange /\ ~vmssSpec.ShouldPatchCustomData)
    => vmssResult.kind = "nil"

C13_Witness ==
    /\ VMSSDiffedExisting /\ vmssResult.kind = "nil"
    /\ ~ModelChange /\ ~vmssSpec.ShouldPatchCustomData
    /\ vmssSpec.Capacity > 0
    /\ TargetCapacity = vmssExisting.Sku.Capacity

(***************************************************************************)
(* Properties of VMSpec.Parameters and of the errors of Parameters         *)
(***************************************************************************)
\* C14: out-of-band deletion is not repaired.  For a VMSpec with a non-empty
\* ProviderID and nothing observed, Parameters returns no payload and the
\* VMDeletedError of that ProviderID.
C14_DeletedVMNotRecreated ==
    (vmPc = "diffed" /\ vmExisting.kind = "nil" /\ vmSpec.ProviderID # "")
        => /\ vmResult.kind = "nil"
           /\ vmErr = VMDeletedError(vmSpec.ProviderID)

C14_Witness ==
    /\ vmPc = "diffed" /\ vmExisting.kind = "nil"
    /\ vmSpec.ProviderID = "fake/vm/id"
    /\ vmSpec.OSDisk.DiffDiskSettings = NilStr /\ vmSpec.SecurityProfile = NilStr
    /\ vmResult.kind = "nil"
    /\ vmErr = VMDeletedError("fake/vm/id")

\* the scale set spec asks for a capability that its SKU does not have
UnsupportedCapability ==
    \/ /\ vmssSpec.OSDisk.DiffDiskSettings # NilStr
       /\ ~HasCapability(vmssSpec.SKU, "EphemeralOSDiskSupported")
    \/ /\ vmssSpec.SecurityProfile # NilStr
       /\ ~HasCapability(vmssSpec.SKU, "EncryptionAtHostSupported")

\* C15: invalid specs are terminal.  When nothing is observed and the scale
\* set spec asks for encryption at host or an ephemeral OS disk that the SKU
\* does not support, Parameters returns an error that is a terminal error.
C15_UnsupportedCapabilityIsTerminal ==
    (vmssPc = "diffed" /\ vmssExisting.kind = "nil" /\ UnsupportedCapability)
        => (vmssErr # NilStr /\ vmssTerminal)

\* C16: an existing VM is never updated.  When the observed object is a
\* virtual machine, Parameters returns nil and no error, whatever the fields
\* of the spec are.
C16_ExistingVMNotUpdated ==
    (vmPc = "diffed" /\ vmExisting.kind = "VirtualMachine")
        => (vmResult.kind = "nil" /\ vmErr = NilStr)

C16_Witness ==
    /\ vmPc = "diffed" /\ vmExisting.kind = "VirtualMachine"
    /\ vmExisting.VMSize # vmSpec.Size
    /\ vmSpec.ProviderID # ""
    /\ vmSpec.SecurityProfile # NilStr
    /\ ~HasCapability(vmSpec.SKU, "EncryptionAtHostSupported")
    /\ vmResult.kind = "nil" /\ vmErr = NilStr

\* C17: Parameters does not mutate its inputs.  Every call of Parameters
\* leaves every field of the spec as it was before the call.
C17_SpecNotMutated == [][vmssSpec' = vmssSpec /\ nsgSpec' = nsgSpec]_vars

(***************************************************************************)
(* Properties of the reconciliation driver and the async operation poller  *)
(***************************************************************************)
\* the step is a poll whose IsDone returned (false, nil)
PollNotDone == drvPc = "poll" /\ drvPc' = "idle" /\ drvOutcome' = "notDone"

\* C18: poll-not-done is a clean no-op.  When a handle is outstanding and
\* IsDone returns (false, nil), the pass ends without error, the handle
\* stays persisted in state Polling and the Ownership Record is unchanged.
C18_PollNotDoneIsNoOp ==
    [][PollNotDone =>
          /\ drvErr' = NilStr
          /\ handle' = handle /\ handle' # NilStr
          /\ handleState' = "Polling"
          /\ owned' = owned]_vars

C18_Witness ==
    /\ drvPc = "idle" /\ drvOutcome = "notDone"
    /\ passCalls = <<"IsDone">>
    /\ handle # NilStr /\ handleState = "Polling"
    /\ remoteOp.state = "running"
    /\ owned # drvSpec.Names
    /\ drvErr = NilStr

\* the calls of a pass are in order: Get before Parameters before
\* CreateOrUpdateAsync
CallsInOrder(calls) ==
    /\ \A i \in 1..Len(calls) :
          calls[i] = "CreateOrUpdateAsync" =>
             \E k \in 1..(i - 1) : calls[k] = "Parameters"
    /\ \A i \in 1..Len(calls) :
          calls[i] = "Parameters" => \E k \in 1..(i - 1) : calls[k] = "Get"

\* the step ends a pass in which the remote write was confirmed
ConfirmedApply ==
    /\ drvOutcome' = "done"
    /\ passCalls'[Len(passCalls')] \in {"CreateOrUpdateAsync", "Result"}
    /\ remote'.exists

\* C19: ordering.  In every pass Get precedes Parameters and Parameters
\* precedes CreateOrUpdateAsync; the Ownership Record changes only in a step
\* that confirms the remote write, and then to the desired names, so a crash
\* between submit and commit leaves it as it was.
C19_OrderingAndCommit ==
    [][/\ CallsInOrder(passCalls')
       /\ owned' # owned => (ConfirmedApply /\ owned' = drvSpec.Names)
       /\ drvOutcome' = "crashed" => owned' = owned]_vars

C19_Witness ==
    /\ drvOutcome = "crashed" /\ drvPc = "idle"
    /\ handle = NilStr
    /\ remoteOp.state = "succeeded"
    /\ remote = [exists |-> TRUE, rules |-> remoteOp.rules]
    /\ owned # drvSpec.Names

\* the states of a handle: Submitted -> Polling -> {Done, Failed}
HandleTransition(from, to) ==
    \/ from = to
    \/ from \in {"none", "Done", "Failed"} /\ to = "Submitted"
    \/ from = "Submitted" /\ to = "Polling"
    \/ from = "Polling" /\ to \in {"Done", "Failed"}

\* C20: at most one operation in flight.  While a handle is persisted no
\* step calls CreateOrUpdateAsync, also in the first pass after a restart;
\* the handle is cleared only by the step that observes the operation done,
\* and its states follow Submitted -> Polling -> {Done, Failed}.
C20_OneOperationInFlight ==
    [][/\ handle # NilStr =>
             ~(passCalls' # <<>> /\ passCalls' # passCalls
                 /\ passCalls'[Len(passCalls')] = "CreateOrUpdateAsync")
       /\ (handle # NilStr /\ handle' = NilStr) =>
             (handleState = "Polling" /\ handleState' \in {"Done", "Failed"}
                 /\ remoteOp.state \in {"succeeded", "failed"})
       /\ HandleTransition(handleState, handleState')
       /\ (handle' # NilStr) <=> (handleState' \in {"Submitted", "Polling"})]_vars

C20_Witness ==
    /\ drvOutcome = "crashed"
    /\ drvPc = "result"
    /\ passCalls = <<"IsDone">>
    /\ handle # NilStr /\ handleState = "Polling"

(***************************************************************************)
(* Further properties of ScaleSetSpec.Parameters                           *)
(***************************************************************************)
\* the spec asks for no more replicas than the observed scale set has, for
\* the same model and without a patch of the custom data
NoIncreaseRequested ==
    /\ VMSSDiffedExisting
    /\ vmssSpec.Capacity <= vmssExisting.Sku.Capacity
    /\ ~ModelChange /\ ~vmssSpec.ShouldPatchCustomData

\* C21, as stated: without model changes, with a Capacity of the spec that
\* is at most the existing capacity and without ShouldPatchCustomData,
\* Parameters returns nil, for every MaxSurge and every state of the
\* instances.
C21_NilWhenCapacityNotIncreased == NoIncreaseRequested => vmssResult.kind = "nil"

\* C21, amended: in that case Parameters returns nil exactly when the
\* capacity to send, which is Capacity + MaxSurge when the surge applies, is
\* at most the existing capacity; the payload returned otherwise carries the
\* surged capacity, so a capacity below the existing one is never sent.
C21_NilUnlessSurged ==
    NoIncreaseRequested =>
        /\ vmssResult.kind = "nil" <=> TargetCapacity <= vmssExisting.Sku.Capacity
        /\ vmssResult.kind = "VMSS" =>
              /\ vmssResult.Sku.Capacity = vmssSpec.Capacity + vmssSpec.MaxSurge
              /\ vmssResult.Sku.Capacity > vmssExisting.Sku.Capacity

C21_Witness ==
    /\ NoIncreaseRequested
    /\ vmssSpec.Capacity < vmssExisting.Sku.Capacity
    /\ vmssSpec.OrchestrationMode = "Uniform" /\ ~Converged
    /\ vmssResult.kind = "VMSS"
    /\ vmssResult.Sku.Capacity = vmssSpec.Capacity + vmssSpec.MaxSurge

\* C22, as stated: the surge does not compound.  Over the passes of an
\* unchanged spec whose payloads are all applied, every capacity written is
\* Capacity or Capacity + MaxSurge, and once the existing capacity is at
\* least Capacity + MaxSurge, with no model change and no patch of the
\* custom data, Parameters returns nil.
C22_SurgeDoesNotCompound ==
    /\ VMSSUpdatePayload =>
          vmssResult.Sku.Capacity \in
             {vmssSpec.Capacity, vmssSpec.Capacity + vmssSpec.MaxSurge}
    /\ (VMSSDiffedExisting /\ ~ModelChange /\ ~vmssSpec.ShouldPatchCustomData
          /\ vmssExisting.Sku.Capacity >= vmssSpec.Capacity + vmssSpec.MaxSurge)
       => vmssResult.kind = "nil"

\* C22, amended: the existing capacity is also at least Capacity, which
\* Capacity + MaxSurge does not ensure when MaxSurge is negative.
C22_SurgeDoesNotCompoundAboveDesired ==
    /\ VMSSUpdatePayload =>
          vmssResult.Sku.Capacity \in
             {vmssSpec.Capacity, vmssSpec.Capacity + vmssSpec.MaxSurge}
    /\ (VMSSDiffedExisting /\ ~ModelChange /\ ~vmssSpec.ShouldPatchCustomData
          /\ vmssExisting.Sku.Capacity >= vmssSpec.Capacity + vmssSpec.MaxSurge
          /\ vmssExisting.Sku.Capacity >= vmssSpec.Capacity)
       => vmssResult.kind = "nil"

\* a later pass over a surged capacity that a payload has written
C22_Witness ==
    /\ VMSSDiffedExisting /\ vmssResult.kind = "nil"
    /\ vmssSpec.MaxSurge > 0
    /\ vmssSpec.OrchestrationMode = "Uniform" /\ ~Converged
    /\ vmssExisting.Sku.Capacity = vmssSpec.Capacity + vmssSpec.MaxSurge
    /\ vmssExisting.Sku.Capacity > MaxExistingCapacity

(***************************************************************************)
(* Properties of the results of Parameters                                 *)
(***************************************************************************)
\* C23: whenever Parameters returns an error, the payload returned with it
\* is nil (stated here for ScaleSetSpec).
C23_ErrorMeansNilPayload ==
    (vmssPc = "diffed" /\ vmssErr # NilStr) => vmssResult.kind = "nil"


\* Parameters was called with nothing observed on a spec that sets
\* AdditionalCapabilities.UltraSSDEnabled and that the SKU supports
UltraSSDSetOnCreation ==
    /\ vmssPc = "diffed"
    /\ vmssExisting.kind = "nil"
    /\ setsUltraSSD(vmssSpec)
    /\ vmssSpec.SecurityProfile = NilStr

\* C27: UltraSSD on creation.  When the spec sets
\* AdditionalCapabilities.UltraSSDEnabled, Parameters with nothing observed
\* returns a payload whose AdditionalCapabilities.UltraSSDEnabled is the
\* spec's value, whether or not a data disk uses UltraSSD_LRS.
C27_UltraSSDFromSpec ==
    UltraSSDSetOnCreation =>
       /\ vmssErr = NilStr
       /\ vmssResult.kind = "VMSS"
       /\ vmssResult.AdditionalCapabilities.present
       /\ vmssResult.AdditionalCapabilities.UltraSSDEnabled =
             vmssSpec.AdditionalCapabilities.UltraSSDEnabled

\* the conversions of the desired rules, in the order of the spec
convertedRules == [i \in 1..Len(specRules) |-> SecurityRuleToSDK(specRules[i])]

\* the desired rules that are not found in the observed group
addedRules == SelectSeq(convertedRules, LAMBDA r : ~ruleExists(groupRules, r))

\* the observed rules that are not retracted
retainedRules == SelectSeq(groupRules, LAMBDA r : ~Retractable(r))

\* C24: order of an update payload.  A non-nil payload for an observed group
\* lists first the desired rules not found in the observed group, in the
\* order of the spec, then the retained observed rules in their observed
\* order; when no rule is added it is the observed list without the
\* retracted rules.
C24_PayloadOrder ==
    (DiffedExisting /\ nsgResult.kind = "SecurityGroup") =>
        /\ payloadRules = addedRules \o retainedRules
        /\ addedRules = <<>> =>
              /\ payloadRules = retainedRules
              /\ Len(payloadRules) < Len(groupRules)

C24_Witness ==
    /\ DiffedExisting /\ nsgResult.kind = "SecurityGroup"
    /\ Len(addedRules) = 2 /\ addedRules[1] # addedRules[2]
    /\ Len(groupRules) = 2 /\ Len(retainedRules) = 1
    /\ Retractable(groupRules[1])
    /\ payloadRules = <<addedRules[1], addedRules[2], groupRules[2]>>

\* C25: optimistic concurrency.  A non-nil payload for an observed group
\* carries the etag of that group; a payload that creates the group carries
\* no etag.
C25_EtagOfObserved ==
    (nsgPc = "diffed" /\ nsgResult.kind = "SecurityGroup") =>
        /\ nsgExisting.kind = "SecurityGroup" => nsgResult.Etag = nsgExisting.Etag
        /\ nsgExisting.kind = "nil" => nsgResult.Etag = NilStr

C25_Witness ==
    /\ DiffedExisting /\ nsgResult.kind = "SecurityGroup"
    /\ nsgCalls = 2
    /\ nsgExisting.Etag = "fake-etag-2" /\ nsgResult.Etag = "fake-etag-2"

\* some observed rule has the name of the rule, case folded
NamePresent(rule) ==
    \E j \in 1..Len(groupRules) : EqualFold(Deref(groupRules[j].Name), Deref(rule.Name))

\* some observed rule has the name of the rule, case folded, and all its
\* other fields
SameDefinitionPresent(rule) ==
    \E j \in 1..Len(groupRules) :
        /\ EqualFold(Deref(groupRules[j].Name), Deref(rule.Name))
        /\ [groupRules[j] EXCEPT !.Name = rule.Name] = rule

\* C26: ruleExists is true only if an observed rule has the name and the
\* destination port range of the rule, case folded; a rule whose name is
\* observed with a modified definition is reported as not existing, and so
\* is a rule whose name is not observed.
C26_RuleExists ==
    DiffedExisting =>
        \A i \in 1..Len(specRules) :
            LET rule == SecurityRuleToSDK(specRules[i]) IN
            /\ ruleExists(groupRules, rule) =>
                  \E j \in 1..Len(groupRules) :
                      /\ EqualFold(Deref(groupRules[j].Name), Deref(rule.Name))
                      /\ EqualFold(Deref(groupRules[j].DestinationPortRange),
                                   Deref(rule.DestinationPortRange))
            /\ (NamePresent(rule) /\ ~SameDefinitionPresent(rule))
                  => ~ruleExists(groupRules, rule)
            /\ ~NamePresent(rule) => ~ruleExists(groupRules, rule)

(***************************************************************************)
(* Properties of the identity converters                                   *)
(***************************************************************************)
\* the provider IDs of the list, each without a leading "azure://"
expectedKeys ==
    { IF id # <<>> /\ id[1] = "azure://" THEN SubSeq(id, 2, Len(id)) ELSE id :
         id \in { idUAMI[i].ProviderID : i \in 1..Len(idUAMI) } }

\* C28: identity conversion.  VMIdentityToVMSDK returns a SystemAssigned
\* identity without user assigned identities for SystemAssigned; no
\* identity and an error that wraps ErrUserAssignedIdentitiesNotFound for
\* UserAssigned with an empty list; for UserAssigned with a list, a map
\* whose keys are the provider IDs without a leading "azure://"; nil and
\* no error for any other identity.  UserAssignedIdentitiesToVMSSSDK yields
\* the keys and the error of UserAssignedIdentitiesToVMSDK.
C28_IdentityConversion ==
    idPc = "done" =>
        /\ idIdentity = "SystemAssigned" =>
              /\ idVM.err = <<>>
              /\ idVM.identity.kind = "VirtualMachineIdentity"
              /\ idVM.identity.Type = "SystemAssigned"
              /\ idVM.identity.UserAssignedIdentities.keys = {}
        /\ (idIdentity = "UserAssigned" /\ idUAMI = <<>>) =>
              /\ idVM.identity.kind = "nil"
              /\ idVM.err # <<>>
              /\ Is(idVM.err, ErrUserAssignedIdentitiesNotFound)
        /\ (idIdentity = "UserAssigned" /\ idUAMI # <<>>) =>
              /\ idVM.err = <<>>
              /\ idVM.identity.kind = "VirtualMachineIdentity"
              /\ idVM.identity.Type = "UserAssigned"
              /\ ~idVM.identity.UserAssignedIdentities.nil
              /\ idVM.identity.UserAssignedIdentities.keys = expectedKeys
        /\ idIdentity \notin {"SystemAssigned", "UserAssigned"} =>
              /\ idVM.identity.kind = "nil"
              /\ idVM.err = <<>>
        /\ idVMSSMap.map.keys = idVMMap.map.keys
        /\ idVMSSMap.map.nil = idVMMap.map.nil
        /\ idVMSSMap.err = idVMMap.err

C28_Witness ==
    /\ idPc = "done"
    /\ idIdentity = "UserAssigned"
    /\ Len(idUAMI) = 2
    /\ idUAMI[1].ProviderID = <<"azure://", "my-user-id">>
    /\ idUAMI[2].ProviderID = <<"my-user-id", "my-user-id">>
    /\ idVM.identity.UserAssignedIdentities.keys =
          { <<"my-user-id">>, <<"my-user-id", "my-user-id">> }
    /\ idVMSSMap.map.keys = idVM.identity.UserAssignedIdentities.keys

(***************************************************************************)
(* Properties of createAzureIdentityWithBindings                           *)
(***************************************************************************)
ValidIdentityType ==
    aiType \in {"UserAssignedMSI", "ServicePrincipal", "ServicePrincipalCertificate"}

\* the Create succeeded or found the object
Succeeded(call) == call.err \in {NilStr, "AlreadyExists"}

\* C29: createAzureIdentityWithBindings is idempotent and ordered.  A call
\* creates the binding only after its Create of the identity succeeded or
\* returned AlreadyExists; a call returns nil exactly when the type is valid
\* and both Creates succeeded or returned AlreadyExists, and then, however
\* many calls were made or are racing, there is exactly one identity and one
\* binding; a call whose Create of the identity failed otherwise returns an
\* error without a Create of the binding; with another identity type every
\* call returns an error and no Create is made.
C29_IdempotentAndOrdered ==
    /\ aiIdentities <= 1 /\ aiBindings <= 1
    /\ \A c \in Callers :
          /\ \A i \in 1..Len(aiCalls[c]) :
                aiCalls[c][i].object = "AzureIdentityBinding" =>
                   /\ i = 2
                   /\ aiCalls[c][1].object = "AzureIdentity"
                   /\ Succeeded(aiCalls[c][1])
          /\ ~ValidIdentityType => aiCalls[c] = <<>>
          /\ aiReturned[c] =>
                /\ (aiErr[c] = NilStr) <=>
                      /\ ValidIdentityType
                      /\ Len(aiCalls[c]) = 2
                      /\ Succeeded(aiCalls[c][1]) /\ Succeeded(aiCalls[c][2])
                /\ aiErr[c] = NilStr => (aiIdentities = 1 /\ aiBindings = 1)
                /\ (aiCalls[c] # <<>> /\ ~Succeeded(aiCalls[c][1])) =>
                      (aiErr[c] # NilStr /\ Len(aiCalls[c]) = 1)
                /\ (aiCalls[c] # <<>> /\ Succeeded(aiCalls[c][1])) =>
                      Len(aiCalls[c]) = 2

\* two racing calls: each creates one of the objects and finds the other
C29_Witness ==
    /\ aiReturned[1] /\ aiReturned[2]
    /\ aiErr[1] = NilStr /\ aiErr[2] = NilStr
    /\ aiCalls[1] = <<[object |-> "AzureIdentity", err |-> NilStr, created |-> TRUE],
                      [object |-> "AzureIdentityBinding", err |-> "AlreadyExists",
                       created |-> FALSE]>>
    /\ aiCalls[2] = <<[object |-> "AzureIdentity", err |-> "AlreadyExists",
                       created |-> FALSE],
                      [object |-> "AzureIdentityBinding", err |-> NilStr, created |-> TRUE]>>
    /\ aiIdentities = 1 /\ aiBindings = 1

(***************************************************************************)
(* Properties of IsClusterNamespaceAllowed                                 *)
(***************************************************************************)
InNamespaceList ==
    \E i \in 1..Len(naAllowed.NamespaceList.items) :
        naAllowed.NamespaceList.items[i] = naNamespace

\* the selector is given, has a label or an expression, and its operators
\* are known
SelectorValidNonEmpty ==
    /\ ~naAllowed.Selector.nil
    /\ naAllowed.Selector.MatchLabels # {} \/ naAllowed.Selector.MatchExpressions # <<>>
    /\ \A i \in 1..Len(naAllowed.Selector.MatchExpressions) :
          naAllowed.Selector.MatchExpressions[i].operator = "Exists"

\* the namespace is in the cluster and has what the selector asks for
SelectedByLabels ==
    /\ naNamespace \in naCluster
    /\ naAllowed.Selector.MatchLabels \subseteq NamespaceLabels(naNamespace)
    /\ \A i \in 1..Len(naAllowed.Selector.MatchExpressions) :
          \E l \in NamespaceLabels(naNamespace) :
              l[1] = naAllowed.Selector.MatchExpressions[i].key

\* C30: the decision of IsClusterNamespaceAllowed.  Nil allowedNamespaces
\* denies; the empty AllowedNamespaces value allows; a namespace of
\* NamespaceList is allowed without a call for the selector; otherwise the
\* namespace is allowed exactly when the selector is valid and not empty,
\* the List call succeeded and a listed namespace has its name; a nil or
\* empty selector matches nothing, a selector or List error denies.
C30_NamespaceAllowed ==
    naPc = "done" =>
        /\ naAllowed.nil => ~naResult
        /\ naAllowed = ZeroAllowedNamespaces => naResult
        /\ (~naAllowed.nil /\ InNamespaceList) => (naResult /\ naCalls = <<>>)
        /\ (~naAllowed.nil /\ naAllowed # ZeroAllowedNamespaces /\ ~InNamespaceList) =>
              /\ naResult <=>
                    (SelectorValidNonEmpty /\ naListErr = NilStr /\ SelectedByLabels)
              /\ naListErr # NilStr => ~naResult
              /\ ~SelectorValidNonEmpty => ~naResult

\* allowed by the selector alone
C30_Witness ==
    /\ naPc = "done" /\ naResult
    /\ ~InNamespaceList /\ naAllowed.NamespaceList.items # <<>>
    /\ naCalls = <<"LabelSelectorAsSelector", "List">>
    /\ naNamespace = "team-a"
    /\ naAllowed.Selector.MatchLabels = {<<"team", "a">>}
====
